---- MODULE Spec2Model ----
(***************************************************************************)
(* FieldWorkBook: the budget ledger and the amount-request workflow of     *)
(* src/server.js.  The file holds the server twice: on SQLite (lines       *)
(* 1-690) and on Supabase (lines 691-2010); `backend` says which one runs. *)
(*                                                                         *)
(* Every `await supabase...` (every db.get / db.run callback) of a handler *)
(* is one atomic database round trip; between two round trips of one       *)
(* handler the round trips of other handlers may run (cooperative          *)
(* concurrency of the Node event loop).  One action of the model is one    *)
(* round trip together with the code that runs on its answer, up to the    *)
(* next round trip or the response.                                        *)
(*                                                                         *)
(* Money is counted in cents (the columns are decimal(10,2)); ids are      *)
(* positive integers and 0 stands for null / undefined.                    *)
(***************************************************************************)
EXTENDS Integers, Sequences, FiniteSets, TLC

\* ---- bounds -------------------------------------------------------------
MaxTeams == 2
MaxExpenses == 2
MaxRequests == 2
MaxUsers == 4

\* handler slots: requests being served at the same time
Handlers == {"h1", "h2"}

\* request bodies drawn by the clients
TeamBudgets == {10}
RequestAmounts == {5}
\* :id of the approve and reject routes; MaxRequests + 1 is an id of no row
RequestIds == 1 .. (MaxRequests + 1)

\* ---- sessions (req.session) ----------------------------------------------
\* userId = 0: no session (never logged in / logged out)
Sessions ==
    { [userId |-> 0, userRole |-> "none",        teamId |-> 0],
      [userId |-> 1, userRole |-> "admin",       teamId |-> 0],
      [userId |-> 2, userRole |-> "partner",     teamId |-> 0],
      [userId |-> 3, userRole |-> "field_staff", teamId |-> 1],
      [userId |-> 4, userRole |-> "field_staff", teamId |-> 2],
      [userId |-> 5, userRole |-> "field_staff", teamId |-> 0] }

\* the requests that overlap in Spec: a partner and the field staff of team 1,
\* with expenses of which two exceed the budget of a team
ConcurrentSessions == {s \in Sessions : s.userId \in {2, 3}}
ConcurrentAmounts == {6}
\* the requests of SpecSeq: no session, the administrator, the field staff of
\* team 1 and field staff without a team, with expenses below and at the
\* budget of a team
SequentialSessions == {s \in Sessions : s.userId \in {0, 1, 3, 5}}
SequentialAmounts == {4, 10}

VARIABLES
    backend,    \* "supabase" or "sqlite": the variant of the server that runs
    teams,      \* table teams: id -> row
    expenses,   \* table expenses: id -> row
    requests,   \* table amount_requests: id -> row
    seq,        \* the id sequences of the three tables
    pc,         \* per handler slot: "idle", the await it is suspended at, or "responded"
    loc,        \* per handler slot: the handler's local constants
    resp,       \* per handler slot: the response it has sent (res.status(..).json(..))
    users,      \* table users: id -> row
    session,    \* req.session of the browser whose requests SpecAuth follows
    json        \* per handler slot: the rows of the response body (res.json(rows))

vars == <<backend, teams, expenses, requests, seq, pc, loc, resp, users, session, json>>
db == <<teams, expenses, requests, seq>>

NoRow == [id |-> 0]

IdleLoc ==
    [userId |-> 0, userRole |-> "none", teamId |-> 0, amount |-> 0,
     id |-> 0, team_id |-> 0, partner1_id |-> 0, partner2_id |-> 0, rows |-> {},
     teamCount |-> 0, totals |-> << >>,
     requestId |-> 0, request |-> NoRow, teamNow |-> NoRow, newExpense |-> 0]

NoSession == [userId |-> 0, userRole |-> "none", teamId |-> 0]

NoResp == [route |-> "none", status |-> 0, error |-> "none"]

\* a response that carries no rows: res.json({ error }), res.json({ success })
NoJson == {}

\* ---- the Supabase client ---------------------------------------------------
\* .eq('id', id).single(): exactly one row, else an error and no data
Single(table, id) ==
    IF id \in DOMAIN table
    THEN [data |-> table[id], error |-> FALSE]
    ELSE [data |-> NoRow, error |-> TRUE]

\* db.get(... WHERE id = ?): the row, or undefined
Get(table, id) == IF id \in DOMAIN table THEN table[id] ELSE NoRow

\* .insert([row]).select('id').single(), INSERT INTO: the row gets the next id
\* of the table
InsertAlone(table, id, row) == [k \in {id} |-> row]

Insert(table, id, row) ==
    [k \in DOMAIN table \cup {id} |-> IF k = id THEN row ELSE table[k]]

\* team_id of expenses and amount_requests is a foreign key to teams and user_id
\* one to users: Postgres refuses the insert of a row that names no team or no
\* user (SQLite, where foreign keys are not switched on, does not)
\* a column without a foreign key constraint: every insert is accepted
ForeignKeyUnchecked(table, id) == TRUE

ForeignKey(table, id) == id \in DOMAIN table

\* .delete().eq(..): the table without the rows ids
Remove(table, ids) == [k \in DOMAIN table \ ids |-> table[k]]

\* a row of another table names the user u; Postgres refuses to delete a row
\* that a foreign key still names
UserReferenced(u) ==
    \/ \E e \in DOMAIN expenses : expenses[e].user_id = u
    \/ \E r \in DOMAIN requests : requests[r].user_id = u \/ requests[r].processed_by = u
    \/ \E t \in DOMAIN teams : teams[t].created_by = u

TeamReferenced(t) ==
    \/ \E e \in DOMAIN expenses : expenses[e].team_id = t
    \/ \E r \in DOMAIN requests : requests[r].team_id = t
    \/ \E u \in DOMAIN users : users[u].team_id = t

\* bcrypt.hashSync(password, 10) and bcrypt.compareSync(password, hash)
hashSync(password) == <<"$2a$10$", password>>
compareSync(password, hash) == hash = hashSync(password)

\* ---- middleware -----------------------------------------------------------
requireAuth(s) == s.userId # 0

requireAdmin(s) == ~ (s.userId = 0 \/ s.userRole # "admin")

\* a guard that lets every logged-in user through
requireAnyRole(s) == ~ (s.userId = 0)

requireAdminOrPartner(s) ==
    ~ (s.userId = 0 \/ (s.userRole # "admin" /\ s.userRole # "partner"))

\* ---- responses ------------------------------------------------------------
Send(h, route, status, error, rows) ==
    /\ resp' = [resp EXCEPT ![h] = [route |-> route, status |-> status, error |-> error]]
    /\ json' = [json EXCEPT ![h] = rows]
    /\ pc' = [pc EXCEPT ![h] = "responded"]
    /\ loc' = [loc EXCEPT ![h] = IdleLoc]
    /\ UNCHANGED backend

Reply(h, route, status, error) == Send(h, route, status, error, NoJson)

\* res.json(rows) of a handler that only reads
RespondRows(h, route, rows) ==
    /\ Send(h, route, 200, "none", rows)
    /\ UNCHANGED <<db, users, session>>

\* the response of a handler that writes neither users nor the session
Respond(h, route, status, error) ==
    /\ Reply(h, route, status, error)
    /\ UNCHANGED <<users, session>>

\* the response has left: the slot serves the next request
Finish(h) ==
    /\ pc[h] = "responded"
    /\ pc' = [pc EXCEPT ![h] = "idle"]
    /\ resp' = [resp EXCEPT ![h] = NoResp]
    /\ json' = [json EXCEPT ![h] = NoJson]
    /\ UNCHANGED <<backend, teams, expenses, requests, seq, loc, users, session>>

Suspend(h, label, l) ==
    /\ pc' = [pc EXCEPT ![h] = label]
    /\ loc' = [loc EXCEPT ![h] = l]
    /\ UNCHANGED <<backend, resp, json>>

\* the await of a handler that writes neither users nor the session
Await(h, label, l) ==
    /\ Suspend(h, label, l)
    /\ UNCHANGED <<users, session>>

WithSession(s) ==
    [IdleLoc EXCEPT !.userId = s.userId, !.userRole = s.userRole, !.teamId = s.teamId]

\* ---- POST /api/login, POST /api/logout --------------------------------------
\* usernames are unique: .eq('username', username).limit(1) is the user or none
UserNamed(username) == {u \in DOMAIN users : users[u].username = username}

SessionOfUnbound(u) ==
    [userId |-> u, userRole |-> users[u].role, teamId |-> 0]

SessionOf(u) ==
    [userId |-> u, userRole |-> users[u].role, teamId |-> users[u].team_id]

PostLogin(h, username, password) ==
    /\ pc[h] = "idle"
    /\ backend = "supabase"
    /\ UNCHANGED <<db, users>>
    /\ \E error \in BOOLEAN :
          IF error
          THEN /\ Reply(h, "POST /api/login", 500, "Database error")
               /\ UNCHANGED session
          ELSE IF \/ UserNamed(username) = {}
                  \/ \E u \in UserNamed(username) : ~ compareSync(password, users[u].password)
          THEN /\ Reply(h, "POST /api/login", 401, "Invalid credentials")
               /\ UNCHANGED session
          ELSE /\ session' = SessionOf(CHOOSE u \in UserNamed(username) : TRUE)
               /\ Reply(h, "POST /api/login", 200, "none")

PostLogout(h) ==
    /\ pc[h] = "idle"
    /\ backend = "supabase"
    /\ UNCHANGED <<db, users>>
    /\ \/ /\ Reply(h, "POST /api/logout", 500, "Could not log out")
          /\ UNCHANGED session
       \/ /\ session' = NoSession
          /\ Reply(h, "POST /api/logout", 200, "none")

\* ---- POST /api/teams -------------------------------------------------------
\* complete: the body holds name, location and initial_amount
PostTeams(h, s, complete, initial_amount) ==
    /\ pc[h] = "idle"
    /\ backend = "supabase"
    /\ UNCHANGED db
    /\ IF ~ requireAdminOrPartner(s)
       THEN Respond(h, "POST /api/teams", 403, "Admin or Partner access required")
       ELSE IF ~ complete
       THEN Respond(h, "POST /api/teams", 400, "Missing required fields")
       ELSE Await(h, "teams:insert", [WithSession(s) EXCEPT !.amount = initial_amount])

PostTeamsInsert(h) ==
    /\ pc[h] = "teams:insert"
    /\ backend = "supabase"
    /\ \/ /\ UNCHANGED db
          /\ Respond(h, "POST /api/teams", 500, "Failed to create team")
       \/ /\ seq.teams < MaxTeams
          /\ LET id == seq.teams + 1
                 row == [initial_amount |-> loc[h].amount,
                         used_amount |-> 0,
                         remaining_amount |-> loc[h].amount,
                         created_by |-> loc[h].userId]
             IN /\ teams' = Insert(teams, id, row)
                /\ seq' = [seq EXCEPT !.teams = id]
                /\ UNCHANGED <<expenses, requests>>
                /\ Respond(h, "POST /api/teams", 200, "none")

\* ---- POST /api/expenses ----------------------------------------------------
\* a balance check that also refuses an expense of the whole remaining_amount
InsufficientBalanceAtBoundary(team, amount) == team.remaining_amount <= amount

InsufficientBalance(team, amount) == team.remaining_amount < amount

\* a debit that forgets remaining_amount
DebitNextUsedOnly(teamNow, amount) ==
    [used_amount |-> teamNow.used_amount + amount,
     remaining_amount |-> teamNow.remaining_amount]

\* the manual two-step update: the next balances from the row read before
DebitNext(teamNow, amount) ==
    [used_amount |-> teamNow.used_amount + amount,
     remaining_amount |-> teamNow.remaining_amount - amount]

\* the stored procedure behind supabase.rpc('increment_team_usage'): one
\* atomic statement adding p_amount to used_amount and taking it from
\* remaining_amount
increment_team_usage(t, p_team_id, p_amount) ==
    IF p_team_id \in DOMAIN t
    THEN [t EXCEPT ![p_team_id].used_amount = @ + p_amount,
                   ![p_team_id].remaining_amount = @ - p_amount]
    ELSE t

PostExpenses(h, s, amount) ==
    /\ pc[h] = "idle"
    /\ backend = "supabase"
    /\ UNCHANGED db
    /\ IF ~ requireAuth(s)
       THEN Respond(h, "POST /api/expenses", 401, "Authentication required")
       ELSE IF s.userRole # "field_staff"
       THEN Respond(h, "POST /api/expenses", 403, "Only field staff can add expenses")
       ELSE IF s.teamId = 0
       THEN Respond(h, "POST /api/expenses", 400, "You are not assigned to any team")
       ELSE Await(h, "expenses:select_team", [WithSession(s) EXCEPT !.amount = amount])

PostExpensesSelectTeam(h) ==
    /\ pc[h] = "expenses:select_team"
    /\ backend = "supabase"
    /\ UNCHANGED db
    /\ \E fail \in BOOLEAN :
          LET r == Single(teams, loc[h].teamId)
              teamErr == fail \/ r.error
          IN IF teamErr
             THEN Respond(h, "POST /api/expenses", 500, "Database error")
             ELSE IF InsufficientBalance(r.data, loc[h].amount)
             THEN Respond(h, "POST /api/expenses", 400, "Insufficient team balance")
             ELSE Await(h, "expenses:insert", loc[h])

PostExpensesInsert(h) ==
    /\ pc[h] = "expenses:insert"
    /\ backend = "supabase"
    /\ \/ /\ UNCHANGED db
          /\ Respond(h, "POST /api/expenses", 500, "Database error")
       \/ /\ seq.expenses < MaxExpenses
          /\ ForeignKey(teams, loc[h].teamId)
          /\ ForeignKey(users, loc[h].userId)
          /\ LET id == seq.expenses + 1
                 row == [team_id |-> loc[h].teamId, user_id |-> loc[h].userId,
                         amount |-> loc[h].amount]
             IN /\ expenses' = Insert(expenses, id, row)
                /\ seq' = [seq EXCEPT !.expenses = id]
                /\ UNCHANGED <<teams, requests>>
                /\ Await(h, "expenses:rpc", [loc[h] EXCEPT !.newExpense = id])

PostExpensesRpc(h) ==
    /\ pc[h] = "expenses:rpc"
    /\ backend = "supabase"
    /\ \/ /\ teams' = increment_team_usage(teams, loc[h].teamId, loc[h].amount)
          /\ UNCHANGED <<expenses, requests, seq>>
          /\ Respond(h, "POST /api/expenses", 200, "none")
       \/ /\ UNCHANGED db      \* updateErr: fall back to the manual update
          /\ Await(h, "expenses:fallback_select", loc[h])

PostExpensesFallbackSelect(h) ==
    /\ pc[h] = "expenses:fallback_select"
    /\ backend = "supabase"
    /\ UNCHANGED db
    /\ \E fail \in BOOLEAN :
          LET r == Single(teams, loc[h].teamId)
              getTeamErr == fail \/ r.error
          IN IF getTeamErr
             THEN Respond(h, "POST /api/expenses", 500, "Database error")
             ELSE Await(h, "expenses:fallback_update", [loc[h] EXCEPT !.teamNow = r.data])

PostExpensesFallbackUpdate(h) ==
    /\ pc[h] = "expenses:fallback_update"
    /\ backend = "supabase"
    /\ \/ /\ UNCHANGED db
          /\ Respond(h, "POST /api/expenses", 500, "Database error")
       \/ /\ LET next == DebitNext(loc[h].teamNow, loc[h].amount)
                 id == loc[h].teamId
             IN teams' = IF id \in DOMAIN teams
                         THEN [teams EXCEPT ![id].used_amount = next.used_amount,
                                            ![id].remaining_amount = next.remaining_amount]
                         ELSE teams
          /\ UNCHANGED <<expenses, requests, seq>>
          /\ Respond(h, "POST /api/expenses", 200, "none")

\* ---- POST /api/amount-requests ----------------------------------------------
PostAmountRequests(h, s, requested_amount) ==
    /\ pc[h] = "idle"
    /\ backend = "supabase"
    /\ UNCHANGED db
    /\ IF ~ requireAuth(s)
       THEN Respond(h, "POST /api/amount-requests", 401, "Authentication required")
       ELSE IF s.userRole # "field_staff"
       THEN Respond(h, "POST /api/amount-requests", 403, "Only field staff can request amounts")
       ELSE IF s.teamId = 0
       THEN Respond(h, "POST /api/amount-requests", 400, "You are not assigned to any team")
       ELSE Await(h, "requests:insert", [WithSession(s) EXCEPT !.amount = requested_amount])

\* an insert that leaves the status column out: the row is stored with status
\* null
PostAmountRequestsInsertNoStatus(h) ==
    /\ pc[h] = "requests:insert"
    /\ backend = "supabase"
    /\ \/ /\ UNCHANGED db
          /\ Respond(h, "POST /api/amount-requests", 500, "Database error")
       \/ /\ seq.requests < MaxRequests
          /\ ForeignKey(teams, loc[h].teamId)
          /\ ForeignKey(users, loc[h].userId)
          /\ LET id == seq.requests + 1
                 row == [team_id |-> loc[h].teamId, user_id |-> loc[h].userId,
                         requested_amount |-> loc[h].amount,
                         status |-> "null", processed_by |-> 0]
             IN /\ requests' = Insert(requests, id, row)
                /\ seq' = [seq EXCEPT !.requests = id]
                /\ UNCHANGED <<teams, expenses>>
                /\ Respond(h, "POST /api/amount-requests", 200, "none")

PostAmountRequestsInsert(h) ==
    /\ pc[h] = "requests:insert"
    /\ backend = "supabase"
    /\ \/ /\ UNCHANGED db
          /\ Respond(h, "POST /api/amount-requests", 500, "Database error")
       \/ /\ seq.requests < MaxRequests
          /\ ForeignKey(teams, loc[h].teamId)
          /\ ForeignKey(users, loc[h].userId)
          /\ LET id == seq.requests + 1
                 row == [team_id |-> loc[h].teamId, user_id |-> loc[h].userId,
                         requested_amount |-> loc[h].amount,
                         status |-> "pending", processed_by |-> 0]
             IN /\ requests' = Insert(requests, id, row)
                /\ seq' = [seq EXCEPT !.requests = id]
                /\ UNCHANGED <<teams, expenses>>
                /\ Respond(h, "POST /api/amount-requests", 200, "none")

\* ---- PUT /api/amount-requests/:id/approve -----------------------------------
\* status "null": a legacy row whose status column is null
\* a status check that lets an approved request through once more
ProcessableAgain(request) == request.status # "rejected"

\* a status check that knows no legacy rows
ProcessablePendingOnly(request) == request.status = "pending"

Processable(request) == ~ (request.status # "pending" /\ request.status # "null")

\* a credit that forgets initial_amount
CreditNextRemainingOnly(teamNow, requested_amount) ==
    [initial_amount |-> teamNow.initial_amount,
     remaining_amount |-> teamNow.remaining_amount + requested_amount]

CreditNext(teamNow, requested_amount) ==
    [initial_amount |-> teamNow.initial_amount + requested_amount,
     remaining_amount |-> teamNow.remaining_amount + requested_amount]

Approved(row, adminId) == [row EXCEPT !.status = "approved", !.processed_by = adminId]

PutApprove(h, s, requestId) ==
    /\ pc[h] = "idle"
    /\ backend = "supabase"
    /\ UNCHANGED db
    /\ IF ~ requireAdminOrPartner(s)
       THEN Respond(h, "PUT /api/amount-requests/:id/approve", 403, "Admin or Partner access required")
       ELSE Await(h, "approve:select_request", [WithSession(s) EXCEPT !.requestId = requestId])

PutApproveSelectRequest(h) ==
    /\ pc[h] = "approve:select_request"
    /\ backend = "supabase"
    /\ UNCHANGED db
    /\ \E fail \in BOOLEAN :
          LET r == Single(requests, loc[h].requestId)
              getReqErr == fail \/ r.error
          IN IF getReqErr
             THEN Respond(h, "PUT /api/amount-requests/:id/approve", 500, "Database error")
             ELSE IF ~ Processable(r.data)
             THEN Respond(h, "PUT /api/amount-requests/:id/approve", 400,
                          "Invalid request or request already processed")
             ELSE Await(h, "approve:update_request", [loc[h] EXCEPT !.request = r.data])

PutApproveUpdateRequest(h) ==
    /\ pc[h] = "approve:update_request"
    /\ backend = "supabase"
    /\ \/ /\ UNCHANGED db
          /\ Respond(h, "PUT /api/amount-requests/:id/approve", 500, "Database error")
       \/ /\ LET id == loc[h].requestId
             IN requests' = IF id \in DOMAIN requests
                            THEN [requests EXCEPT ![id] = Approved(@, loc[h].userId)]
                            ELSE requests
          /\ UNCHANGED <<teams, expenses, seq>>
          /\ Await(h, "approve:select_team", loc[h])

PutApproveSelectTeam(h) ==
    /\ pc[h] = "approve:select_team"
    /\ backend = "supabase"
    /\ UNCHANGED db
    /\ \E fail \in BOOLEAN :
          LET r == Single(teams, loc[h].request.team_id)
              teamNowErr == fail \/ r.error
          IN IF teamNowErr
             THEN Respond(h, "PUT /api/amount-requests/:id/approve", 500, "Database error")
             ELSE Await(h, "approve:update_team", [loc[h] EXCEPT !.teamNow = r.data])

PutApproveUpdateTeam(h) ==
    /\ pc[h] = "approve:update_team"
    /\ backend = "supabase"
    /\ \/ /\ UNCHANGED db
          /\ Respond(h, "PUT /api/amount-requests/:id/approve", 500, "Database error")
       \/ /\ LET next == CreditNext(loc[h].teamNow, loc[h].request.requested_amount)
                 id == loc[h].request.team_id
             IN teams' = IF id \in DOMAIN teams
                         THEN [teams EXCEPT ![id].initial_amount = next.initial_amount,
                                            ![id].remaining_amount = next.remaining_amount]
                         ELSE teams
          /\ UNCHANGED <<expenses, requests, seq>>
          /\ Respond(h, "PUT /api/amount-requests/:id/approve", 200, "none")

\* ---- PUT /api/amount-requests/:id/reject ------------------------------------
\* a reject that does not record who processed the request
RejectedUnsigned(row, adminId) == [row EXCEPT !.status = "rejected"]

Rejected(row, adminId) == [row EXCEPT !.status = "rejected", !.processed_by = adminId]

PutReject(h, s, requestId) ==
    /\ pc[h] = "idle"
    /\ backend = "supabase"
    /\ UNCHANGED db
    /\ IF ~ requireAdminOrPartner(s)
       THEN Respond(h, "PUT /api/amount-requests/:id/reject", 403, "Admin or Partner access required")
       ELSE Await(h, "reject:update_request", [WithSession(s) EXCEPT !.requestId = requestId])

PutRejectUpdateRequest(h) ==
    /\ pc[h] = "reject:update_request"
    /\ backend = "supabase"
    /\ \/ /\ UNCHANGED db
          /\ Respond(h, "PUT /api/amount-requests/:id/reject", 500, "Database error")
       \/ /\ LET id == loc[h].requestId
             IN requests' = IF id \in DOMAIN requests
                            THEN [requests EXCEPT ![id] = Rejected(@, loc[h].userId)]
                            ELSE requests
          /\ UNCHANGED <<teams, expenses, seq>>
          /\ Respond(h, "PUT /api/amount-requests/:id/reject", 200, "none")

\* ---- PUT /api/fix-null-requests ---------------------------------------------
FixNull(row) == IF row.status = "null" THEN [row EXCEPT !.status = "pending"] ELSE row

PutFixNullRequests(h, s) ==
    /\ pc[h] = "idle"
    /\ backend = "supabase"
    /\ UNCHANGED db
    /\ IF ~ requireAdminOrPartner(s)
       THEN Respond(h, "PUT /api/fix-null-requests", 403, "Admin or Partner access required")
       ELSE Await(h, "fix_null:update", WithSession(s))

PutFixNullRequestsUpdate(h) ==
    /\ pc[h] = "fix_null:update"
    /\ backend = "supabase"
    /\ \/ /\ UNCHANGED db
          /\ Respond(h, "PUT /api/fix-null-requests", 500, "Database error")
       \/ /\ requests' = [id \in DOMAIN requests |-> FixNull(requests[id])]
          /\ UNCHANGED <<teams, expenses, seq>>
          /\ Respond(h, "PUT /api/fix-null-requests", 200, "none")

\* ---- POST /api/users, POST /api/partners ------------------------------------
\* the new user: its username is fresh, its password is "pw"
NewUser(id, role, team_id) ==
    [username |-> id, password |-> hashSync("pw"), role |-> role, team_id |-> team_id]

InsertUser(h, route, role) ==
    \/ /\ UNCHANGED <<db, users, session>>
       /\ Reply(h, route, 500, "Database error")
    \/ /\ seq.users < MaxUsers
       /\ loc[h].team_id = 0 \/ ForeignKey(teams, loc[h].team_id)
       /\ LET id == seq.users + 1
          IN /\ users' = Insert(users, id, NewUser(id, role, loc[h].team_id))
             /\ seq' = [seq EXCEPT !.users = id]
       /\ UNCHANGED <<teams, expenses, requests, session>>
       /\ Reply(h, route, 200, "none")

PostUsers(h, s, team_id) ==
    /\ pc[h] = "idle"
    /\ backend = "supabase"
    /\ UNCHANGED db
    /\ IF ~ requireAdminOrPartner(s)
       THEN Respond(h, "POST /api/users", 403, "Admin or Partner access required")
       ELSE Await(h, "users:insert", [WithSession(s) EXCEPT !.team_id = team_id])

PostUsersInsert(h) ==
    /\ pc[h] = "users:insert"
    /\ backend = "supabase"
    /\ InsertUser(h, "POST /api/users", "field_staff")

\* complete: the body holds username, password and full_name
PostPartners(h, s, complete, team_id) ==
    /\ pc[h] = "idle"
    /\ backend = "supabase"
    /\ UNCHANGED db
    /\ IF ~ requireAdmin(s)
       THEN Respond(h, "POST /api/partners", 403, "Admin access required")
       ELSE IF ~ complete
       THEN Respond(h, "POST /api/partners", 400, "Username, password, and full name are required")
       ELSE Await(h, "partners:insert", [WithSession(s) EXCEPT !.team_id = team_id])

PostPartnersInsert(h) ==
    /\ pc[h] = "partners:insert"
    /\ backend = "supabase"
    /\ InsertUser(h, "POST /api/partners", "partner")

\* ---- DELETE /api/users/:id, DELETE /api/partners/:id ---------------------------
\* the four round trips the two handlers share; label is "users" or "partners"
\* a count whose result is not looked at
CountExpensesUnchecked(h, route, label, error) ==
    /\ pc[h] = label \o ":count_expenses"
    /\ backend = "supabase"
    /\ UNCHANGED db
    /\ \E fail \in BOOLEAN :
          IF fail
          THEN Respond(h, route, 500, "Database error")
          ELSE Await(h, label \o ":delete_requests", loc[h])

CountExpenses(h, route, label, error) ==
    /\ pc[h] = label \o ":count_expenses"
    /\ backend = "supabase"
    /\ UNCHANGED db
    /\ \E fail \in BOOLEAN :
          IF fail
          THEN Respond(h, route, 500, "Database error")
          ELSE IF \E e \in DOMAIN expenses : expenses[e].user_id = loc[h].id
          THEN Respond(h, route, 400, error)
          ELSE Await(h, label \o ":delete_requests", loc[h])

DeleteRequestsOfUser(h, route, label) ==
    /\ pc[h] = label \o ":delete_requests"
    /\ backend = "supabase"
    /\ \/ /\ UNCHANGED db
          /\ Respond(h, route, 500, "Database error")
       \/ /\ requests' = Remove(requests,
                 {r \in DOMAIN requests : requests[r].user_id = loc[h].id})
          /\ UNCHANGED <<teams, expenses, seq>>
          /\ Await(h, label \o ":select_role", loc[h])

SelectRole(h, route, label, role, error) ==
    /\ pc[h] = label \o ":select_role"
    /\ backend = "supabase"
    /\ UNCHANGED db
    /\ \E fail \in BOOLEAN :
          LET r == Single(users, loc[h].id)
          IN IF fail \/ r.error
             THEN Respond(h, route, 500, "Database error")
             ELSE IF r.data.role # role
             THEN Respond(h, route, 404, error)
             ELSE Await(h, label \o ":delete", loc[h])

DeleteUser(h, route, label) ==
    /\ pc[h] = label \o ":delete"
    /\ backend = "supabase"
    /\ \/ /\ UNCHANGED <<db, users, session>>
          /\ Reply(h, route, 500, "Database error")
       \/ /\ ~ UserReferenced(loc[h].id)
          /\ users' = Remove(users, {loc[h].id})
          /\ UNCHANGED <<db, session>>
          /\ Reply(h, route, 200, "none")

DeleteUsers(h, s, id) ==
    /\ pc[h] = "idle"
    /\ backend = "supabase"
    /\ UNCHANGED db
    /\ IF ~ requireAdminOrPartner(s)
       THEN Respond(h, "DELETE /api/users/:id", 403, "Admin or Partner access required")
       ELSE Await(h, "users:count_expenses", [WithSession(s) EXCEPT !.id = id])

DeleteUsersCountExpenses(h) ==
    CountExpenses(h, "DELETE /api/users/:id", "users",
                  "Cannot delete user with existing expenses. Please remove all expenses first.")

DeleteUsersDeleteRequests(h) == DeleteRequestsOfUser(h, "DELETE /api/users/:id", "users")

DeleteUsersSelectRole(h) ==
    SelectRole(h, "DELETE /api/users/:id", "users", "field_staff",
               "User not found or cannot delete admin users")

DeleteUsersDelete(h) == DeleteUser(h, "DELETE /api/users/:id", "users")

DeletePartners(h, s, id) ==
    /\ pc[h] = "idle"
    /\ backend = "supabase"
    /\ UNCHANGED db
    /\ IF ~ requireAdmin(s)
       THEN Respond(h, "DELETE /api/partners/:id", 403, "Admin access required")
       ELSE Await(h, "partners:count_expenses", [WithSession(s) EXCEPT !.id = id])

DeletePartnersCountExpenses(h) ==
    CountExpenses(h, "DELETE /api/partners/:id", "partners",
                  "Cannot delete partner with existing expenses. Please remove all expenses first.")

DeletePartnersDeleteRequests(h) ==
    DeleteRequestsOfUser(h, "DELETE /api/partners/:id", "partners")

DeletePartnersSelectRole(h) ==
    SelectRole(h, "DELETE /api/partners/:id", "partners", "partner",
               "Partner not found or cannot delete non-partner users")

DeletePartnersDelete(h) == DeleteUser(h, "DELETE /api/partners/:id", "partners")

\* ---- DELETE /api/teams/:id -------------------------------------------------------
DeleteTeams(h, s, id) ==
    /\ pc[h] = "idle"
    /\ backend = "supabase"
    /\ UNCHANGED db
    /\ IF ~ requireAdminOrPartner(s)
       THEN Respond(h, "DELETE /api/teams/:id", 403, "Admin or Partner access required")
       ELSE Await(h, "teams:count_expenses", [WithSession(s) EXCEPT !.id = id])

DeleteTeamsCountExpenses(h) ==
    /\ pc[h] = "teams:count_expenses"
    /\ backend = "supabase"
    /\ UNCHANGED db
    /\ \E fail \in BOOLEAN :
          IF fail
          THEN Respond(h, "DELETE /api/teams/:id", 500, "Database error")
          ELSE IF \E e \in DOMAIN expenses : expenses[e].team_id = loc[h].id
          THEN Respond(h, "DELETE /api/teams/:id", 400,
                       "Cannot delete team with existing expenses. Please remove all expenses first.")
          ELSE Await(h, "teams:delete_users", loc[h])

\* .from('users').delete().eq('team_id', teamId): the members of every role
TeamMembers(t) == {u \in DOMAIN users : users[u].team_id = t}

DeleteTeamsDeleteUsers(h) ==
    /\ pc[h] = "teams:delete_users"
    /\ backend = "supabase"
    /\ \/ /\ UNCHANGED <<db, users, session>>
          /\ Reply(h, "DELETE /api/teams/:id", 500, "Database error")
       \/ /\ \A u \in TeamMembers(loc[h].id) : ~ UserReferenced(u)
          /\ users' = Remove(users, TeamMembers(loc[h].id))
          /\ UNCHANGED <<db, session>>
          /\ Suspend(h, "teams:delete_requests", loc[h])

DeleteTeamsDeleteRequests(h) ==
    /\ pc[h] = "teams:delete_requests"
    /\ backend = "supabase"
    /\ \/ /\ UNCHANGED db
          /\ Respond(h, "DELETE /api/teams/:id", 500, "Database error")
       \/ /\ requests' = Remove(requests,
                 {r \in DOMAIN requests : requests[r].team_id = loc[h].id})
          /\ UNCHANGED <<teams, expenses, seq>>
          /\ Await(h, "teams:delete", loc[h])

DeleteTeamsDelete(h) ==
    /\ pc[h] = "teams:delete"
    /\ backend = "supabase"
    /\ \/ /\ UNCHANGED db
          /\ Respond(h, "DELETE /api/teams/:id", 500, "Database error")
       \/ /\ ~ TeamReferenced(loc[h].id)
          /\ teams' = Remove(teams, {loc[h].id})
          /\ UNCHANGED <<expenses, requests, seq>>
          /\ Respond(h, "DELETE /api/teams/:id", 200, "none")

\* ---- GET /api/teams/:id, GET /api/expenses, GET /api/amount-requests ---------
\* a row as the client sees it: its columns and its id
Row(table, k) == [id |-> k] @@ table[k]

\* a query that returns every row, whoever asks
SelectEveryTeam(table, l) == {Row(table, k) : k \in DOMAIN table}

\* supabase.from(table).select('*'), for field staff with
\* .eq('team_id', req.session.teamId)
Select(table, l) ==
    {Row(table, k) : k \in {k \in DOMAIN table :
                               l.userRole = "field_staff" => table[k].team_id = l.teamId}}

\* usersMap.get(id) || 'Unknown', teamsMap.get(id) || 'Unknown': the name of a
\* user is its username, the name of a team its id, 'Unknown' and null are 0
Unknown == 0
user_name(id) == IF id \in DOMAIN users THEN users[id].username ELSE Unknown
team_name(id) == IF id \in DOMAIN teams THEN id ELSE Unknown

\* (expenses || []).map(e => ({ ...e, user_name, team_name }))
EnrichExpenses(rows) ==
    { e @@ [user_name |-> user_name(e.user_id), team_name |-> team_name(e.team_id)] :
        e \in rows }

\* (requests || []).map(r => ({ ...r, user_name, team_name, processed_by_name }))
EnrichRequests(rows) ==
    { r @@ [user_name |-> user_name(r.user_id), team_name |-> team_name(r.team_id),
            processed_by_name |-> IF r.processed_by # 0
                                  THEN user_name(r.processed_by) ELSE Unknown] :
        r \in rows }

GetTeam(h, s, id) ==
    /\ pc[h] = "idle"
    /\ backend = "supabase"
    /\ UNCHANGED db
    /\ IF ~ requireAuth(s)
       THEN Respond(h, "GET /api/teams/:id", 401, "Authentication required")
       ELSE IF s.userRole = "field_staff" /\ s.teamId # id
       THEN Respond(h, "GET /api/teams/:id", 403, "Access denied to this team")
       ELSE Await(h, "team:select", [WithSession(s) EXCEPT !.id = id])

GetTeamSelect(h) ==
    /\ pc[h] = "team:select"
    /\ backend = "supabase"
    /\ \/ /\ UNCHANGED db
          /\ Respond(h, "GET /api/teams/:id", 500, "Database error")
       \/ LET found == Single(teams, loc[h].id)
          IN IF found.error
             THEN /\ UNCHANGED db
                  /\ Respond(h, "GET /api/teams/:id", 500, "Database error")
             ELSE RespondRows(h, "GET /api/teams/:id", {Row(teams, loc[h].id)})

GetExpenses(h, s) ==
    /\ pc[h] = "idle"
    /\ backend = "supabase"
    /\ UNCHANGED db
    /\ IF ~ requireAuth(s)
       THEN Respond(h, "GET /api/expenses", 401, "Authentication required")
       ELSE Await(h, "get_expenses:select", WithSession(s))

GetExpensesSelect(h) ==
    /\ pc[h] = "get_expenses:select"
    /\ backend = "supabase"
    /\ UNCHANGED db
    /\ \/ Respond(h, "GET /api/expenses", 500, "Database error")
       \/ Await(h, "get_expenses:enrich",
                [loc[h] EXCEPT !.rows = Select(expenses, loc[h])])

GetExpensesEnrich(h) ==
    /\ pc[h] = "get_expenses:enrich"
    /\ backend = "supabase"
    /\ RespondRows(h, "GET /api/expenses", EnrichExpenses(loc[h].rows))

GetAmountRequests(h, s) ==
    /\ pc[h] = "idle"
    /\ backend = "supabase"
    /\ UNCHANGED db
    /\ IF ~ requireAuth(s)
       THEN Respond(h, "GET /api/amount-requests", 401, "Authentication required")
       ELSE Await(h, "get_requests:select", WithSession(s))

GetAmountRequestsSelect(h) ==
    /\ pc[h] = "get_requests:select"
    /\ backend = "supabase"
    /\ UNCHANGED db
    /\ \/ Respond(h, "GET /api/amount-requests", 500, "Database error")
       \/ Await(h, "get_requests:enrich",
                [loc[h] EXCEPT !.rows = Select(requests, loc[h])])

GetAmountRequestsEnrich(h) ==
    /\ pc[h] = "get_requests:enrich"
    /\ backend = "supabase"
    /\ RespondRows(h, "GET /api/amount-requests", EnrichRequests(loc[h].rows))

\* ---- GET /api/partner-report, POST /api/partner-report/export/... -----------
\* the optional filters from_date, to_date and team_id are left out, and so are
\* the names of the two partners, which the handler reads first
GetPartnerReport(h, s, partner1_id, partner2_id) ==
    /\ pc[h] = "idle"
    /\ backend = "supabase"
    /\ UNCHANGED db
    /\ IF ~ requireAuth(s)
       THEN Respond(h, "GET /api/partner-report", 401, "Authentication required")
       ELSE IF partner1_id = 0 \/ partner2_id = 0
       THEN Respond(h, "GET /api/partner-report", 400,
                    "Both partner1_id and partner2_id are required")
       ELSE Await(h, "report:select_teams",
                  [WithSession(s) EXCEPT !.partner1_id = partner1_id,
                                         !.partner2_id = partner2_id])

\* a line of reportData
ReportLine(type, id, amount, by, l) ==
    LET partner1Amount == IF by = l.partner1_id THEN amount ELSE 0
        partner2Amount == IF by = l.partner2_id THEN amount ELSE 0
    IN [type |-> type, id |-> id,
        partner1_amount |-> partner1Amount,
        partner2_amount |-> partner2Amount,
        difference |-> IF partner1Amount >= partner2Amount
                       THEN partner1Amount - partner2Amount
                       ELSE partner2Amount - partner1Amount]

\* reportData.reduce((sum, item) => sum + item[key], 0)
RECURSIVE reduce(_, _)
reduce(reportData, key) ==
    IF reportData = {} THEN 0
    ELSE LET item == CHOOSE item \in reportData : TRUE
         IN item[key] + reduce(reportData \ {item}, key)

\* the totals of the report, sent as one more line of the answer
Totals(reportData) ==
    LET partner1_total == reduce(reportData, "partner1_amount")
        partner2_total == reduce(reportData, "partner2_amount")
    IN [type |-> "totals", id |-> 0,
        partner1_amount |-> partner1_total,
        partner2_amount |-> partner2_total,
        difference |-> partner1_total - partner2_total]

GetPartnerReportSelectTeams(h) ==
    /\ pc[h] = "report:select_teams"
    /\ backend = "supabase"
    /\ UNCHANGED db
    /\ \/ Respond(h, "GET /api/partner-report", 500, "Database error fetching teams")
       \/ Await(h, "report:select_requests",
                [loc[h] EXCEPT !.rows =
                    { ReportLine("team_creation", t, teams[t].initial_amount,
                                 teams[t].created_by, loc[h]) :
                        t \in {t \in DOMAIN teams :
                                 teams[t].created_by \in {loc[h].partner1_id,
                                                          loc[h].partner2_id}} }])

GetPartnerReportSelectRequests(h) ==
    /\ pc[h] = "report:select_requests"
    /\ backend = "supabase"
    /\ \/ /\ UNCHANGED db
          /\ Respond(h, "GET /api/partner-report", 500, "Database error fetching requests")
       \/ LET reportData ==
                 loc[h].rows \cup
                 { ReportLine("request_approval", r, requests[r].requested_amount,
                              requests[r].processed_by, loc[h]) :
                     r \in {r \in DOMAIN requests :
                              /\ requests[r].processed_by \in {loc[h].partner1_id,
                                                                loc[h].partner2_id}
                              /\ requests[r].status = "approved"} }
          IN RespondRows(h, "GET /api/partner-report", reportData \cup {Totals(reportData)})

\* the export renders the report the client sends; it reads no table
PostPartnerReportExport(h, s, route, error) ==
    /\ pc[h] = "idle"
    /\ backend = "supabase"
    /\ UNCHANGED db
    /\ IF ~ requireAuth(s)
       THEN Respond(h, route, 401, "Authentication required")
       ELSE \/ Respond(h, route, 200, "none")
            \/ Respond(h, route, 500, error)

PostPartnerReportExportExcel(h, s) ==
    PostPartnerReportExport(h, s, "POST /api/partner-report/export/excel",
                            "Failed to export to Excel")

PostPartnerReportExportPdf(h, s) ==
    PostPartnerReportExport(h, s, "POST /api/partner-report/export/pdf",
                            "Failed to export to PDF")

\* ---- GET /api/dashboard/stats ------------------------------------------------
\* (arr || []).reduce((acc, row) => acc + parseFloat(row[key] || 0), 0)
RECURSIVE sum(_, _)
sum(arr, key) ==
    IF DOMAIN arr = {} THEN 0
    ELSE LET k == CHOOSE k \in DOMAIN arr : TRUE
         IN arr[k][key] + sum([j \in DOMAIN arr \ {k} |-> arr[j]], key)

GetDashboardStats(h, s) ==
    /\ pc[h] = "idle"
    /\ backend = "supabase"
    /\ UNCHANGED db
    /\ IF ~ requireAdminOrPartner(s)
       THEN Respond(h, "GET /api/dashboard/stats", 403, "Admin or Partner access required")
       ELSE Await(h, "stats:count_teams", WithSession(s))

\* the three queries of Promise.all, in the order the handler issues them
GetDashboardStatsCountTeams(h) ==
    /\ pc[h] = "stats:count_teams"
    /\ backend = "supabase"
    /\ UNCHANGED db
    /\ Await(h, "stats:select_totals",
             [loc[h] EXCEPT !.teamCount = Cardinality(DOMAIN teams)])

GetDashboardStatsSelectTotals(h) ==
    /\ pc[h] = "stats:select_totals"
    /\ backend = "supabase"
    /\ UNCHANGED db
    /\ Await(h, "stats:count_pending", [loc[h] EXCEPT !.totals = teams])

GetDashboardStatsCountPending(h) ==
    /\ pc[h] = "stats:count_pending"
    /\ backend = "supabase"
    /\ \/ /\ UNCHANGED db
          /\ Respond(h, "GET /api/dashboard/stats", 500, "Database error")
       \/ RespondRows(h, "GET /api/dashboard/stats",
             {[totalTeams |-> loc[h].teamCount,
               totalBudget |-> sum(loc[h].totals, "initial_amount"),
               totalUsed |-> sum(loc[h].totals, "used_amount"),
               totalRemaining |-> sum(loc[h].totals, "remaining_amount"),
               pendingRequests |->
                   Cardinality({r \in DOMAIN requests : requests[r].status = "pending"})]})

\* ---- the SQLite variant -------------------------------------------------------
\* UPDATE teams SET used_amount = used_amount + ?, remaining_amount =
\* remaining_amount - ? WHERE id = ?
DebitTeam(t, id, amount) ==
    IF id \in DOMAIN t
    THEN [t EXCEPT ![id].used_amount = @ + amount, ![id].remaining_amount = @ - amount]
    ELSE t

\* UPDATE teams SET initial_amount = initial_amount + ?, remaining_amount =
\* remaining_amount + ? WHERE id = ?
CreditTeam(t, id, amount) ==
    IF id \in DOMAIN t
    THEN [t EXCEPT ![id].initial_amount = @ + amount, ![id].remaining_amount = @ + amount]
    ELSE t

SqliteProcessable(request) == ~ (request.status # "pending")

SqlitePostTeams(h, s, complete, initial_amount) ==
    /\ pc[h] = "idle"
    /\ backend = "sqlite"
    /\ UNCHANGED db
    /\ IF ~ requireAdmin(s)
       THEN Respond(h, "POST /api/teams", 403, "Admin access required")
       ELSE IF ~ complete
       THEN Respond(h, "POST /api/teams", 400, "Missing required fields")
       ELSE Await(h, "teams:insert", [WithSession(s) EXCEPT !.amount = initial_amount])

SqlitePostTeamsInsert(h) ==
    /\ pc[h] = "teams:insert"
    /\ backend = "sqlite"
    /\ \/ /\ UNCHANGED db
          /\ Respond(h, "POST /api/teams", 500, "Failed to create team")
       \/ /\ seq.teams < MaxTeams
          /\ LET id == seq.teams + 1
                 row == [initial_amount |-> loc[h].amount,
                         used_amount |-> 0,
                         remaining_amount |-> loc[h].amount,
                         created_by |-> 0]
             IN /\ teams' = Insert(teams, id, row)
                /\ seq' = [seq EXCEPT !.teams = id]
                /\ UNCHANGED <<expenses, requests>>
                /\ Respond(h, "POST /api/teams", 200, "none")

SqlitePostExpenses(h, s, amount) ==
    /\ pc[h] = "idle"
    /\ backend = "sqlite"
    /\ UNCHANGED db
    /\ IF ~ requireAuth(s)
       THEN Respond(h, "POST /api/expenses", 401, "Authentication required")
       ELSE IF s.userRole # "field_staff"
       THEN Respond(h, "POST /api/expenses", 403, "Only field staff can add expenses")
       ELSE IF s.teamId = 0
       THEN Respond(h, "POST /api/expenses", 400, "You are not assigned to any team")
       ELSE Await(h, "expenses:select_team", [WithSession(s) EXCEPT !.amount = amount])

SqlitePostExpensesSelectTeam(h) ==
    /\ pc[h] = "expenses:select_team"
    /\ backend = "sqlite"
    /\ UNCHANGED db
    /\ \E err \in BOOLEAN :
          LET team == Get(teams, loc[h].teamId)
          IN IF err
             THEN Respond(h, "POST /api/expenses", 500, "Database error")
             ELSE IF team = NoRow \/ InsufficientBalance(team, loc[h].amount)
             THEN Respond(h, "POST /api/expenses", 400, "Insufficient team balance")
             ELSE Await(h, "expenses:insert", loc[h])

SqlitePostExpensesInsert(h) ==
    /\ pc[h] = "expenses:insert"
    /\ backend = "sqlite"
    /\ \/ /\ UNCHANGED db
          /\ Respond(h, "POST /api/expenses", 500, "Database error")
       \/ /\ seq.expenses < MaxExpenses
          /\ LET id == seq.expenses + 1
                 row == [team_id |-> loc[h].teamId, user_id |-> loc[h].userId,
                         amount |-> loc[h].amount]
             IN /\ expenses' = Insert(expenses, id, row)
                /\ seq' = [seq EXCEPT !.expenses = id]
                /\ UNCHANGED <<teams, requests>>
                /\ Await(h, "expenses:update_team", [loc[h] EXCEPT !.newExpense = id])

SqlitePostExpensesUpdateTeam(h) ==
    /\ pc[h] = "expenses:update_team"
    /\ backend = "sqlite"
    /\ \/ /\ UNCHANGED db
          /\ Respond(h, "POST /api/expenses", 500, "Database error")
       \/ /\ teams' = DebitTeam(teams, loc[h].teamId, loc[h].amount)
          /\ UNCHANGED <<expenses, requests, seq>>
          /\ Respond(h, "POST /api/expenses", 200, "none")

\* a submission that does not test the team binding of the session
SqlitePostAmountRequestsUnbound(h, s, requested_amount) ==
    /\ pc[h] = "idle"
    /\ backend = "sqlite"
    /\ UNCHANGED db
    /\ IF ~ requireAuth(s)
       THEN Respond(h, "POST /api/amount-requests", 401, "Authentication required")
       ELSE IF s.userRole # "field_staff"
       THEN Respond(h, "POST /api/amount-requests", 403, "Only field staff can request amounts")
       ELSE Await(h, "requests:insert", [WithSession(s) EXCEPT !.amount = requested_amount])

SqlitePostAmountRequests(h, s, requested_amount) ==
    /\ pc[h] = "idle"
    /\ backend = "sqlite"
    /\ UNCHANGED db
    /\ IF ~ requireAuth(s)
       THEN Respond(h, "POST /api/amount-requests", 401, "Authentication required")
       ELSE IF s.userRole # "field_staff"
       THEN Respond(h, "POST /api/amount-requests", 403, "Only field staff can request amounts")
       ELSE IF s.teamId = 0
       THEN Respond(h, "POST /api/amount-requests", 400, "You are not assigned to any team")
       ELSE Await(h, "requests:insert", [WithSession(s) EXCEPT !.amount = requested_amount])

SqlitePostAmountRequestsInsert(h) ==
    /\ pc[h] = "requests:insert"
    /\ backend = "sqlite"
    /\ \/ /\ UNCHANGED db
          /\ Respond(h, "POST /api/amount-requests", 500, "Database error")
       \/ /\ seq.requests < MaxRequests
          /\ LET id == seq.requests + 1
                 row == [team_id |-> loc[h].teamId, user_id |-> loc[h].userId,
                         requested_amount |-> loc[h].amount,
                         status |-> "pending", processed_by |-> 0]
             IN /\ requests' = Insert(requests, id, row)
                /\ seq' = [seq EXCEPT !.requests = id]
                /\ UNCHANGED <<teams, expenses>>
                /\ Respond(h, "POST /api/amount-requests", 200, "none")

SqlitePutApprove(h, s, requestId) ==
    /\ pc[h] = "idle"
    /\ backend = "sqlite"
    /\ UNCHANGED db
    /\ IF ~ requireAdmin(s)
       THEN Respond(h, "PUT /api/amount-requests/:id/approve", 403, "Admin access required")
       ELSE Await(h, "approve:select_request", [WithSession(s) EXCEPT !.requestId = requestId])

SqlitePutApproveSelectRequest(h) ==
    /\ pc[h] = "approve:select_request"
    /\ backend = "sqlite"
    /\ UNCHANGED db
    /\ \E err \in BOOLEAN :
          LET request == Get(requests, loc[h].requestId)
          IN IF err
             THEN Respond(h, "PUT /api/amount-requests/:id/approve", 500, "Database error")
             ELSE IF request = NoRow \/ ~ SqliteProcessable(request)
             THEN Respond(h, "PUT /api/amount-requests/:id/approve", 400, "Invalid request")
             ELSE Await(h, "approve:update_request", [loc[h] EXCEPT !.request = request])

SqlitePutApproveUpdateRequest(h) ==
    /\ pc[h] = "approve:update_request"
    /\ backend = "sqlite"
    /\ \/ /\ UNCHANGED db
          /\ Respond(h, "PUT /api/amount-requests/:id/approve", 500, "Database error")
       \/ /\ LET id == loc[h].requestId
             IN requests' = IF id \in DOMAIN requests
                            THEN [requests EXCEPT ![id] = Approved(@, loc[h].userId)]
                            ELSE requests
          /\ UNCHANGED <<teams, expenses, seq>>
          /\ Await(h, "approve:credit_team", loc[h])

SqlitePutApproveUpdateTeam(h) ==
    /\ pc[h] = "approve:credit_team"
    /\ backend = "sqlite"
    /\ \/ /\ UNCHANGED db
          /\ Respond(h, "PUT /api/amount-requests/:id/approve", 500, "Database error")
       \/ /\ teams' = CreditTeam(teams, loc[h].request.team_id, loc[h].request.requested_amount)
          /\ UNCHANGED <<expenses, requests, seq>>
          /\ Respond(h, "PUT /api/amount-requests/:id/approve", 200, "none")

SqlitePutReject(h, s, requestId) ==
    /\ pc[h] = "idle"
    /\ backend = "sqlite"
    /\ UNCHANGED db
    /\ IF ~ requireAdmin(s)
       THEN Respond(h, "PUT /api/amount-requests/:id/reject", 403, "Admin access required")
       ELSE Await(h, "reject:update_request", [WithSession(s) EXCEPT !.requestId = requestId])

SqlitePutRejectUpdateRequest(h) ==
    /\ pc[h] = "reject:update_request"
    /\ backend = "sqlite"
    /\ \/ /\ UNCHANGED db
          /\ Respond(h, "PUT /api/amount-requests/:id/reject", 500, "Database error")
       \/ /\ LET id == loc[h].requestId
             IN requests' = IF id \in DOMAIN requests
                            THEN [requests EXCEPT ![id] = Rejected(@, loc[h].userId)]
                            ELSE requests
          /\ UNCHANGED <<teams, expenses, seq>>
          /\ Respond(h, "PUT /api/amount-requests/:id/reject", 200, "none")

\* ---- specification ---------------------------------------------------------
\* the database the server is started on: a Supabase database without rows
EmptyDB == [teams |-> << >>, requests |-> << >>]

\* a Supabase database that holds a team and a legacy amount request whose
\* status is null
LegacyDB ==
    [teams |-> << [initial_amount |-> 10, used_amount |-> 0,
                   remaining_amount |-> 10, created_by |-> 1] >>,
     requests |-> << [team_id |-> 1, user_id |-> 3, requested_amount |-> 5,
                      status |-> "null", processed_by |-> 0] >>]

\* the SQLite database after its initialization: the sample team
SampleDB ==
    [teams |-> << [initial_amount |-> 10, used_amount |-> 0,
                   remaining_amount |-> 10, created_by |-> 0] >>,
     requests |-> << >>]

\* the users behind Sessions; every password is "pw"
SeedUsers ==
    [id \in 1 .. 5 |->
        LET s == CHOOSE x \in Sessions : x.userId = id
        IN [username |-> id, password |-> hashSync("pw"),
            role |-> s.userRole, team_id |-> s.teamId]]

InitUsers(b, dbs, us) ==
    /\ backend = b
    /\ users = us
    /\ session = NoSession
    /\ \E d \in dbs :
          /\ teams = d.teams
          /\ requests = d.requests
          /\ seq = [teams |-> Len(d.teams), expenses |-> 0, requests |-> Len(d.requests),
                    users |-> Len(us)]
    /\ expenses = << >>
    /\ pc = [h \in Handlers |-> "idle"]
    /\ loc = [h \in Handlers |-> IdleLoc]
    /\ resp = [h \in Handlers |-> NoResp]
    /\ json = [h \in Handlers |-> NoJson]

InitWith(b, dbs) == InitUsers(b, dbs, SeedUsers)

\* one step of the handler in slot h of the Supabase variant, its request
\* drawn from the sessions S and the expense amounts A
Step(h, S, A) ==
    \/ \E s \in S, complete \in BOOLEAN, a \in TeamBudgets : PostTeams(h, s, complete, a)
    \/ PostTeamsInsert(h)
    \/ \E s \in S, a \in A : PostExpenses(h, s, a)
    \/ PostExpensesSelectTeam(h)
    \/ PostExpensesInsert(h)
    \/ PostExpensesRpc(h)
    \/ PostExpensesFallbackSelect(h)
    \/ PostExpensesFallbackUpdate(h)
    \/ \E s \in S, a \in RequestAmounts : PostAmountRequests(h, s, a)
    \/ PostAmountRequestsInsert(h)
    \/ \E s \in S, id \in RequestIds : PutApprove(h, s, id)
    \/ PutApproveSelectRequest(h)
    \/ PutApproveUpdateRequest(h)
    \/ PutApproveSelectTeam(h)
    \/ PutApproveUpdateTeam(h)
    \/ \E s \in S, id \in RequestIds : PutReject(h, s, id)
    \/ PutRejectUpdateRequest(h)
    \/ \E s \in S : PutFixNullRequests(h, s)
    \/ PutFixNullRequestsUpdate(h)

\* the same of the SQLite variant
SqliteStep(h, S, A) ==
    \/ \E s \in S, complete \in BOOLEAN, a \in TeamBudgets : SqlitePostTeams(h, s, complete, a)
    \/ SqlitePostTeamsInsert(h)
    \/ \E s \in S, a \in A : SqlitePostExpenses(h, s, a)
    \/ SqlitePostExpensesSelectTeam(h)
    \/ SqlitePostExpensesInsert(h)
    \/ SqlitePostExpensesUpdateTeam(h)
    \/ \E s \in S, a \in RequestAmounts : SqlitePostAmountRequests(h, s, a)
    \/ SqlitePostAmountRequestsInsert(h)
    \/ \E s \in S, id \in RequestIds : SqlitePutApprove(h, s, id)
    \/ SqlitePutApproveSelectRequest(h)
    \/ SqlitePutApproveUpdateRequest(h)
    \/ SqlitePutApproveUpdateTeam(h)
    \/ \E s \in S, id \in RequestIds : SqlitePutReject(h, s, id)
    \/ SqlitePutRejectUpdateRequest(h)

\* Spec: the Supabase variant on a database that holds a team; the handlers of
\* all slots interleave at their awaits
Init == InitWith("supabase", {LegacyDB})

Next ==
    \E h \in Handlers :
        \/ Step(h, ConcurrentSessions, ConcurrentAmounts)
        \/ Finish(h)

Spec == Init /\ [][Next]_vars

\* SpecSeq: either variant, one request at a time, every kind of session
InitSeq ==
    \/ InitWith("supabase", {EmptyDB, LegacyDB})
    \/ InitWith("sqlite", {SampleDB})

NextSeq ==
    \/ Step("h1", SequentialSessions, SequentialAmounts)
    \/ SqliteStep("h1", SequentialSessions, SequentialAmounts)
    \/ Finish("h1")

SpecSeq == InitSeq /\ [][NextSeq]_vars

\* the routes of the Supabase variant that write users, and the deletion of a
\* team
UserStep(h, S, T, U) ==
    \/ \E s \in S, t \in T : PostUsers(h, s, t)
    \/ PostUsersInsert(h)
    \/ \E s \in S, complete \in BOOLEAN, t \in T : PostPartners(h, s, complete, t)
    \/ PostPartnersInsert(h)
    \/ \E s \in S, id \in U : DeleteUsers(h, s, id)
    \/ DeleteUsersCountExpenses(h)
    \/ DeleteUsersDeleteRequests(h)
    \/ DeleteUsersSelectRole(h)
    \/ DeleteUsersDelete(h)
    \/ \E s \in S, id \in U : DeletePartners(h, s, id)
    \/ DeletePartnersCountExpenses(h)
    \/ DeletePartnersDeleteRequests(h)
    \/ DeletePartnersSelectRole(h)
    \/ DeletePartnersDelete(h)
    \/ \E s \in S, id \in T \ {0} : DeleteTeams(h, s, id)
    \/ DeleteTeamsCountExpenses(h)
    \/ DeleteTeamsDeleteUsers(h)
    \/ DeleteTeamsDeleteRequests(h)
    \/ DeleteTeamsDelete(h)

\* SpecAuth: one browser on the Supabase variant; it logs in and out and sends
\* every request under req.session as it then is
AuthUsers ==
    [id \in 1 .. 3 |-> SeedUsers[id]]
AuthNames == {1, 2, 3}
AuthAdminNames == {1, 3}
AuthPasswords == {"pw", "wrong"}
AuthAmounts == {10}
AuthTeams == {1}
AuthUserIds == {2, 3}
AuthRequestIds == {1}

\* a Supabase database that holds a team
TeamDB ==
    [teams |-> << [initial_amount |-> 10, used_amount |-> 0,
                   remaining_amount |-> 10, created_by |-> 1] >>,
     requests |-> << >>]

InitAuth == InitUsers("supabase", {TeamDB, LegacyDB}, AuthUsers)

\* Step with the request ids of approve and reject drawn from I
LedgerStep(h, S, A, I) ==
    \/ \E s \in S, complete \in BOOLEAN, a \in TeamBudgets : PostTeams(h, s, complete, a)
    \/ PostTeamsInsert(h)
    \/ \E s \in S, a \in A : PostExpenses(h, s, a)
    \/ PostExpensesSelectTeam(h)
    \/ PostExpensesInsert(h)
    \/ PostExpensesRpc(h)
    \/ PostExpensesFallbackSelect(h)
    \/ PostExpensesFallbackUpdate(h)
    \/ \E s \in S, a \in RequestAmounts : PostAmountRequests(h, s, a)
    \/ PostAmountRequestsInsert(h)
    \/ \E s \in S, id \in I : PutApprove(h, s, id)
    \/ PutApproveSelectRequest(h)
    \/ PutApproveUpdateRequest(h)
    \/ PutApproveSelectTeam(h)
    \/ PutApproveUpdateTeam(h)
    \/ \E s \in S, id \in I : PutReject(h, s, id)
    \/ PutRejectUpdateRequest(h)
    \/ \E s \in S : PutFixNullRequests(h, s)
    \/ PutFixNullRequestsUpdate(h)

InitLogin == InitUsers("supabase", {TeamDB}, AuthUsers)

NextAuth ==
    \/ \E username \in AuthAdminNames, password \in AuthPasswords :
          PostLogin("h1", username, password)
    \/ PostLogout("h1")
    \/ LedgerStep("h1", {session}, AuthAmounts, AuthRequestIds)
    \/ UserStep("h1", {session}, AuthTeams, AuthUserIds)
    \/ Finish("h1")

SpecAuth == InitLogin /\ [][NextAuth]_vars

\* SpecRoles: one browser on the Supabase variant logs in and out as the
\* administrator, the partner or the field staff and works on amount requests
RequestStep(h, S, R) ==
    \/ \E s \in S, a \in R : PostAmountRequests(h, s, a)
    \/ PostAmountRequestsInsert(h)
    \/ \E s \in S, id \in RequestIds : PutApprove(h, s, id)
    \/ PutApproveSelectRequest(h)
    \/ PutApproveUpdateRequest(h)
    \/ PutApproveSelectTeam(h)
    \/ PutApproveUpdateTeam(h)
    \/ \E s \in S, id \in RequestIds : PutReject(h, s, id)
    \/ PutRejectUpdateRequest(h)
    \/ \E s \in S : PutFixNullRequests(h, s)
    \/ PutFixNullRequestsUpdate(h)

NextRoles ==
    \/ \E username \in AuthNames, password \in AuthPasswords :
          PostLogin("h1", username, password)
    \/ PostLogout("h1")
    \/ RequestStep("h1", {session}, RequestAmounts)
    \/ Finish("h1")

SpecRoles == InitAuth /\ [][NextRoles]_vars

\* SpecAdmin: the administrator and a partner manage users and teams of the
\* Supabase variant, one request at a time
AdminSessions == {s \in Sessions : s.userId \in {1, 2}}
AdminTeams == {0, 1}
AdminUserIds == {2, 3, 4}

NextAdmin ==
    \/ UserStep("h1", AdminSessions, AdminTeams, AdminUserIds)
    \/ Finish("h1")

SpecAdmin == InitAuth /\ [][NextAdmin]_vars

\* SpecRace: expense submissions of the field staff of team 1, of two
\* different amounts, overlapping in the Supabase variant
RaceSessions == {s \in Sessions : s.userId = 3}
RaceAmounts == {4, 6}

ExpenseStep(h, S, A) ==
    \/ \E s \in S, a \in A : PostExpenses(h, s, a)
    \/ PostExpensesSelectTeam(h)
    \/ PostExpensesInsert(h)
    \/ PostExpensesRpc(h)
    \/ PostExpensesFallbackSelect(h)
    \/ PostExpensesFallbackUpdate(h)

NextRace ==
    \E h \in Handlers :
        \/ ExpenseStep(h, RaceSessions, RaceAmounts)
        \/ Finish(h)

SpecRace == Init /\ [][NextRace]_vars

\* SpecAmounts: the Supabase variant, one request at a time, with request
\* bodies that hold amounts below zero (the handlers parseFloat the amounts
\* and do not test their sign)
SignedSessions == {s \in Sessions : s.userId \in {1, 3}}
SignedBudgets == {-5, 10}
SignedAmounts == {-4, 4}
SignedRequestAmounts == {-5}

AmountStep(h, S, B, A, R) ==
    \/ \E s \in S, a \in B : PostTeams(h, s, TRUE, a)
    \/ PostTeamsInsert(h)
    \/ ExpenseStep(h, S, A)
    \/ \E s \in S, a \in R : PostAmountRequests(h, s, a)
    \/ PostAmountRequestsInsert(h)
    \/ \E s \in S, id \in RequestIds : PutApprove(h, s, id)
    \/ PutApproveSelectRequest(h)
    \/ PutApproveUpdateRequest(h)
    \/ PutApproveSelectTeam(h)
    \/ PutApproveUpdateTeam(h)

InitAmounts == InitWith("supabase", {EmptyDB, LegacyDB})

NextAmounts ==
    \/ AmountStep("h1", SignedSessions, SignedBudgets, SignedAmounts, SignedRequestAmounts)
    \/ Finish("h1")

SpecAmounts == InitAmounts /\ [][NextAmounts]_vars

\* SpecReads: one browser on the Supabase variant logs in as the partner or as
\* the field staff of team 1 or of team 2, spends, requests and approves money, and reads
\* teams, expenses, amount requests and the partner report
ReadNames == {2, 3, 4}
ReadPasswords == {"pw"}
ReadAmounts == {4}
ReadTeamIds == 1 .. MaxTeams
ReadPartner1Ids == {0, 1}
ReadPartner2Ids == {2}

TwoTeamsDB ==
    [teams |-> << [initial_amount |-> 10, used_amount |-> 0,
                   remaining_amount |-> 10, created_by |-> 1],
                  [initial_amount |-> 10, used_amount |-> 0,
                   remaining_amount |-> 10, created_by |-> 2] >>,
     requests |-> << >>]

ReadStep(h, S) ==
    \/ \E s \in S, id \in ReadTeamIds : GetTeam(h, s, id)
    \/ GetTeamSelect(h)
    \/ \E s \in S : GetExpenses(h, s)
    \/ GetExpensesSelect(h)
    \/ GetExpensesEnrich(h)
    \/ \E s \in S : GetAmountRequests(h, s)
    \/ GetAmountRequestsSelect(h)
    \/ GetAmountRequestsEnrich(h)
    \/ \E s \in S, partner1_id \in ReadPartner1Ids, partner2_id \in ReadPartner2Ids :
          GetPartnerReport(h, s, partner1_id, partner2_id)
    \/ GetPartnerReportSelectTeams(h)
    \/ GetPartnerReportSelectRequests(h)
    \/ \E s \in S : PostPartnerReportExportExcel(h, s)
    \/ \E s \in S : PostPartnerReportExportPdf(h, s)

\* submitting and approving amount requests
ApprovalStep(h, S, R) ==
    \/ \E s \in S, a \in R : PostAmountRequests(h, s, a)
    \/ PostAmountRequestsInsert(h)
    \/ \E s \in S, id \in RequestIds : PutApprove(h, s, id)
    \/ PutApproveSelectRequest(h)
    \/ PutApproveUpdateRequest(h)
    \/ PutApproveSelectTeam(h)
    \/ PutApproveUpdateTeam(h)

InitReads == InitUsers("supabase", {TwoTeamsDB}, SeedUsers)

NextReads ==
    \/ \E username \in ReadNames, password \in ReadPasswords :
          PostLogin("h1", username, password)
    \/ ExpenseStep("h1", {session}, ReadAmounts)
    \/ ApprovalStep("h1", {session}, RequestAmounts)
    \/ ReadStep("h1", {session})
    \/ Finish("h1")

SpecReads == InitReads /\ [][NextReads]_vars

\* SpecStats: in the Supabase variant the field staff of team 1 submits expenses
\* and a partner approves request 1 and reads the dashboard, the requests
\* overlapping
StatsSessions == {s \in Sessions : s.userId = 2}
StatsRequestIds == {1}

StatsStep(h, S) ==
    \/ \E s \in S : GetDashboardStats(h, s)
    \/ GetDashboardStatsCountTeams(h)
    \/ GetDashboardStatsSelectTotals(h)
    \/ GetDashboardStatsCountPending(h)

NextStats ==
    \E h \in Handlers :
        \/ ExpenseStep(h, RaceSessions, ConcurrentAmounts)
        \/ \E s \in StatsSessions, id \in StatsRequestIds : PutApprove(h, s, id)
        \/ PutApproveSelectRequest(h)
        \/ PutApproveUpdateRequest(h)
        \/ PutApproveSelectTeam(h)
        \/ PutApproveUpdateTeam(h)
        \/ StatsStep(h, StatsSessions)
        \/ Finish(h)

SpecStats == Init /\ [][NextStats]_vars

\* SpecDelete: the administrator deletes users, partners and teams of the
\* Supabase variant while the field staff of team 1 spends and requests money,
\* one request at a time
DeleteSessions == {s \in Sessions : s.userId \in {1, 3}}
DeleteAmounts == {4}
DeleteUserIds == {2, 3}
DeleteTeamIds == {1}

DeleteStep(h, S, U, T) ==
    \/ \E s \in S, id \in U : DeleteUsers(h, s, id)
    \/ DeleteUsersCountExpenses(h)
    \/ DeleteUsersDeleteRequests(h)
    \/ DeleteUsersSelectRole(h)
    \/ DeleteUsersDelete(h)
    \/ \E s \in S, id \in U : DeletePartners(h, s, id)
    \/ DeletePartnersCountExpenses(h)
    \/ DeletePartnersDeleteRequests(h)
    \/ DeletePartnersSelectRole(h)
    \/ DeletePartnersDelete(h)
    \/ \E s \in S, id \in T : DeleteTeams(h, s, id)
    \/ DeleteTeamsCountExpenses(h)
    \/ DeleteTeamsDeleteUsers(h)
    \/ DeleteTeamsDeleteRequests(h)
    \/ DeleteTeamsDelete(h)

NextDelete ==
    \/ ExpenseStep("h1", DeleteSessions, DeleteAmounts)
    \/ RequestStep("h1", DeleteSessions, RequestAmounts)
    \/ DeleteStep("h1", DeleteSessions, DeleteUserIds, DeleteTeamIds)
    \/ Finish("h1")

SpecDelete == InitLogin /\ [][NextDelete]_vars

\* SpecOverlap: each slot serves one request, either an expense of the field
\* staff of team 1 or the administrator's approve of the pending request 1, in
\* either variant; the two requests interleave at their awaits and callbacks
PendingDB ==
    [teams |-> << [initial_amount |-> 10, used_amount |-> 0,
                   remaining_amount |-> 10, created_by |-> 1] >>,
     requests |-> << [team_id |-> 1, user_id |-> 3, requested_amount |-> 5,
                      status |-> "pending", processed_by |-> 0] >>]

OverlapSessions == {s \in Sessions : s.userId = 1}
OverlapRequestIds == {1}

InitOverlap == InitWith("supabase", {PendingDB}) \/ InitWith("sqlite", {PendingDB})

NextOverlap ==
    \E h \in Handlers :
        \/ ExpenseStep(h, RaceSessions, ConcurrentAmounts)
        \/ \E s \in OverlapSessions, id \in OverlapRequestIds : PutApprove(h, s, id)
        \/ PutApproveSelectRequest(h)
        \/ PutApproveUpdateRequest(h)
        \/ PutApproveSelectTeam(h)
        \/ PutApproveUpdateTeam(h)
        \/ \E s \in RaceSessions, a \in ConcurrentAmounts : SqlitePostExpenses(h, s, a)
        \/ SqlitePostExpensesSelectTeam(h)
        \/ SqlitePostExpensesInsert(h)
        \/ SqlitePostExpensesUpdateTeam(h)
        \/ \E s \in OverlapSessions, id \in OverlapRequestIds : SqlitePutApprove(h, s, id)
        \/ SqlitePutApproveSelectRequest(h)
        \/ SqlitePutApproveUpdateRequest(h)
        \/ SqlitePutApproveUpdateTeam(h)

SpecOverlap == InitOverlap /\ [][NextOverlap]_vars

\* SpecOrphans: in the Supabase variant the field staff of team 1 submits
\* expenses and amount requests through the session it opened at the start,
\* while the administrator deletes that user and team 1; the handlers of the two
\* slots interleave at their awaits
OrphanUserIds == {3}

NextOrphans ==
    \E h \in Handlers :
        \/ ExpenseStep(h, RaceSessions, DeleteAmounts)
        \/ \E s \in RaceSessions, a \in RequestAmounts : PostAmountRequests(h, s, a)
        \/ PostAmountRequestsInsert(h)
        \/ \E s \in OverlapSessions, id \in OrphanUserIds : DeleteUsers(h, s, id)
        \/ DeleteUsersCountExpenses(h)
        \/ DeleteUsersDeleteRequests(h)
        \/ DeleteUsersSelectRole(h)
        \/ DeleteUsersDelete(h)
        \/ \E s \in OverlapSessions, id \in DeleteTeamIds : DeleteTeams(h, s, id)
        \/ DeleteTeamsCountExpenses(h)
        \/ DeleteTeamsDeleteUsers(h)
        \/ DeleteTeamsDeleteRequests(h)
        \/ DeleteTeamsDelete(h)
        \/ Finish(h)

SpecOrphans == InitLogin /\ [][NextOrphans]_vars

\* ---- properties --------------------------------------------------------------
\* no handler is between two of its awaits
AtRest == \A h \in Handlers : pc[h] \in {"idle", "responded"}

\* a step in which the handler of slot h sends its response
Answers(h) == pc[h] # "responded" /\ pc'[h] = "responded"

RECURSIVE SumAmount(_, _)
SumAmount(rows, ids) ==
    IF ids = {} THEN 0
    ELSE LET i == CHOOSE x \in ids : TRUE
         IN rows[i].amount + SumAmount(rows, ids \ {i})

ExpensesOf(t) == {e \in DOMAIN expenses : expenses[e].team_id = t}

RECURSIVE SumRequested(_, _)
SumRequested(rows, ids) ==
    IF ids = {} THEN 0
    ELSE LET i == CHOOSE x \in ids : TRUE
         IN rows[i].requested_amount + SumRequested(rows, ids \ {i})

ProcessedOf(t) ==
    {r \in DOMAIN requests : requests[r].team_id = t /\ requests[r].processed_by # 0}

ExpensesRoute == "POST /api/expenses"
ApproveRoute == "PUT /api/amount-requests/:id/approve"
RejectRoute == "PUT /api/amount-requests/:id/reject"

\* C1: whenever no handler is in flight, every team has
\* remaining_amount = initial_amount - used_amount.
C1_BalanceAtRest ==
    AtRest => \A t \in DOMAIN teams :
        teams[t].remaining_amount = teams[t].initial_amount - teams[t].used_amount

\* C2: under every interleaving of expense submissions no team is overdrawn:
\* remaining_amount never is negative, and the debits taken from a team never
\* exceed its budget (N accepted debits of a: N <= budget \div a).
C2_NoOverdraw ==
    \A t \in DOMAIN teams :
        /\ teams[t].remaining_amount >= 0
        /\ teams[t].used_amount <= teams[t].initial_amount

\* C3: the balance check of an expense on an existing team passes exactly when
\* amount <= remaining_amount; when amount > remaining_amount the submission
\* answers "Insufficient team balance" (or the read itself fails) and the
\* database is unchanged; an accepted expense is recorded and takes exactly
\* amount from remaining_amount, so amount = remaining_amount leaves 0.
C3_DebitCheck ==
    [][\A h \in Handlers :
        /\ (pc[h] = "expenses:select_team" /\ pc'[h] # pc[h]
               /\ loc[h].teamId \in DOMAIN teams) =>
             LET team == teams[loc[h].teamId]
                 amount == loc[h].amount
             IN /\ amount > team.remaining_amount =>
                     /\ pc'[h] = "responded"
                     /\ resp'[h].status \in {400, 500}
                     /\ resp'[h].status = 400 => resp'[h].error = "Insufficient team balance"
                     /\ UNCHANGED db
                /\ amount <= team.remaining_amount =>
                     \/ pc'[h] = "expenses:insert"
                     \/ pc'[h] = "responded" /\ resp'[h].status = 500
        /\ (Answers(h) /\ resp'[h].route = ExpensesRoute /\ resp'[h].status = 200) =>
             LET t == loc[h].teamId
                 amount == loc[h].amount
             IN /\ amount <= teams[t].remaining_amount
                /\ teams'[t] = [teams[t] EXCEPT !.used_amount = @ + amount,
                                                !.remaining_amount = @ - amount]
                /\ amount = teams[t].remaining_amount => teams'[t].remaining_amount = 0
                /\ loc[h].newExpense \in DOMAIN expenses'
                /\ expenses'[loc[h].newExpense].amount = amount
      ]_vars

C3_Witness ==
    /\ resp["h1"] = [route |-> ExpensesRoute, status |-> 400,
                     error |-> "Insufficient team balance"]
    /\ 1 \in DOMAIN teams
    /\ teams[1].remaining_amount = 0
    /\ teams[1].used_amount = teams[1].initial_amount
    /\ \E e \in ExpensesOf(1) : expenses[e].amount = 10

\* C4: a successful approve adds the requested_amount of the request to the
\* initial_amount and to the remaining_amount of the request's team, leaves its
\* used_amount alone and leaves every other team as it was.
C4_ApproveCredits ==
    [][\A h \in Handlers :
        /\ (Answers(h) /\ resp'[h].route = ApproveRoute /\ resp'[h].status = 200) =>
             LET r == requests[loc[h].requestId]
                 t == r.team_id
             IN /\ t \in DOMAIN teams
                /\ r.status = "approved"
                /\ DOMAIN teams' = DOMAIN teams
                /\ teams'[t] = [teams[t] EXCEPT
                                  !.initial_amount = @ + r.requested_amount,
                                  !.remaining_amount = @ + r.requested_amount]
                /\ \A u \in DOMAIN teams \ {t} : teams'[u] = teams[u]
        /\ (pc[h] \in {"idle", "approve:select_request", "approve:update_request",
                       "approve:select_team"} /\ pc'[h] # pc[h]) => teams' = teams
      ]_vars

C4_Witness ==
    /\ resp["h1"] = [route |-> ApproveRoute, status |-> 200, error |-> "none"]
    /\ DOMAIN teams = {1, 2}
    /\ teams[1].initial_amount = 15
    /\ teams[1].used_amount = 4
    /\ teams[1].remaining_amount = 11
    /\ teams[2].initial_amount = 10

\* C5: an approve call on a request that has been approved fails with "Invalid
\* request or request already processed" (or its read fails) and changes
\* nothing; a team is credited at most once for each processed request.
C5_ApproveOnce ==
    /\ [][\A h \in Handlers :
            (pc[h] = "approve:select_request" /\ pc'[h] # pc[h]
                /\ loc[h].requestId \in DOMAIN requests
                /\ requests[loc[h].requestId].status = "approved") =>
              /\ pc'[h] = "responded"
              /\ resp'[h].status \in {400, 500}
              /\ resp'[h].status = 400 =>
                    resp'[h].error \in {"Invalid request or request already processed",
                                        "Invalid request"}
              /\ UNCHANGED db
         ]_vars
    /\ [](\A t \in DOMAIN teams : \E b \in TeamBudgets :
            teams[t].initial_amount <= b + SumRequested(requests, ProcessedOf(t)))

C5_Witness ==
    /\ backend = "supabase"
    /\ resp["h1"] = [route |-> ApproveRoute, status |-> 400,
                     error |-> "Invalid request or request already processed"]
    /\ DOMAIN requests = {1}
    /\ requests[1].status = "approved"
    /\ teams[requests[1].team_id].initial_amount = 10 + requests[1].requested_amount

\* C6: once the status of a request is approved or rejected, no step changes
\* its status or its processed_by.
C6_TerminalFinal ==
    [][\A id \in DOMAIN requests :
          requests[id].status \in {"approved", "rejected"} =>
            /\ id \in DOMAIN requests'
            /\ requests'[id].status = requests[id].status
            /\ requests'[id].processed_by = requests[id].processed_by
      ]_vars

\* C7: a reject that succeeds on an existing request sets its status to
\* rejected and its processed_by to the caller and leaves every team, every
\* expense and every other request as it was.
C7_RejectFrame ==
    [][\A h \in Handlers :
        /\ (Answers(h) /\ resp'[h].route = RejectRoute /\ resp'[h].status = 200
               /\ loc[h].requestId \in DOMAIN requests) =>
             LET id == loc[h].requestId
             IN /\ DOMAIN requests' = DOMAIN requests
                /\ requests'[id] = [requests[id] EXCEPT !.status = "rejected",
                                                        !.processed_by = loc[h].userId]
                /\ loc[h].userId # 0
                /\ \A o \in DOMAIN requests \ {id} : requests'[o] = requests[o]
                /\ teams' = teams
                /\ expenses' = expenses
        /\ (pc[h] = "idle" /\ pc'[h] = "reject:update_request") => UNCHANGED db
      ]_vars

C7_Witness ==
    /\ resp["h1"] = [route |-> RejectRoute, status |-> 200, error |-> "none"]
    /\ DOMAIN requests = {1, 2}
    /\ requests[1].status = "approved"
    /\ requests[2].status = "rejected"
    /\ requests[2].processed_by = 1
    /\ teams[1].initial_amount = 15
    /\ expenses # << >>

\* C8: approve and reject of a request id that does not exist answer with an
\* error and change nothing.
C8_MissingRequest ==
    [][\A h \in Handlers :
          (Answers(h) /\ resp'[h].route \in {ApproveRoute, RejectRoute}
              /\ loc[h].requestId # 0
              /\ loc[h].requestId \notin DOMAIN requests) =>
            /\ resp'[h].status # 200
            /\ UNCHANGED db
      ]_vars

\* C9: an expense submission that answers with an error has stored no expense
\* and changed no balance; an approve that answers with an error has changed
\* neither the status of the request nor a balance.
C9_NoPartialWrites ==
    [][\A h \in Handlers :
          (Answers(h) /\ resp'[h].status # 200) =>
            /\ resp'[h].route = ExpensesRoute =>
                  /\ loc[h].newExpense \notin DOMAIN expenses'
                  /\ teams' = teams
            /\ resp'[h].route = ApproveRoute =>
                  /\ loc[h].request # NoRow =>
                        requests'[loc[h].requestId] = loc[h].request
                  /\ teams' = teams
      ]_vars

\* C10: whenever no handler is in flight, the used_amount of every team is the
\* sum of the amounts of the expenses stored for the team.
C10_UsedIsSumOfExpenses ==
    AtRest => \A t \in DOMAIN teams :
        teams[t].used_amount = SumAmount(expenses, ExpensesOf(t))

\* C11: no step lowers the used_amount of a team.
C11_UsedMonotone ==
    [][\A t \in DOMAIN teams :
          t \in DOMAIN teams' => teams'[t].used_amount >= teams[t].used_amount
      ]_vars

\* C12: every stored amount is non-negative: the three balances of every team,
\* the amount of every expense and the requested_amount of every request.
C12_NonNegative ==
    /\ \A t \in DOMAIN teams :
          /\ teams[t].initial_amount >= 0
          /\ teams[t].used_amount >= 0
          /\ teams[t].remaining_amount >= 0
    /\ \A e \in DOMAIN expenses : expenses[e].amount >= 0
    /\ \A r \in DOMAIN requests : requests[r].requested_amount >= 0

RequestsRoute == "POST /api/amount-requests"

\* C13: with one request served at a time, on a team {I, 0, I}: an accepted
\* debit of d turns {i, u, r} into {i, u + d, r - d}; an accepted submission
\* stores a pending request and leaves the balances; an accepted approve of a
\* request of q turns {i, u, r} into {i + q, u, r + q}; an accepted reject of a
\* pending request leaves the balances and the request is rejected; and
\* remaining_amount = initial_amount - used_amount all along.
C13_SequentialScenario ==
    /\ [][\A h \in Handlers :
            (Answers(h) /\ resp'[h].status = 200) =>
              /\ resp'[h].route = ExpensesRoute =>
                    LET t == loc[h].teamId
                        d == loc[h].amount
                    IN /\ d <= teams[t].remaining_amount
                       /\ teams' = [teams EXCEPT ![t] =
                             [initial_amount |-> teams[t].initial_amount,
                              used_amount |-> teams[t].used_amount + d,
                              remaining_amount |-> teams[t].remaining_amount - d,
                              created_by |-> teams[t].created_by]]
              /\ resp'[h].route = RequestsRoute =>
                    /\ teams' = teams
                    /\ \E id \in DOMAIN requests' \ DOMAIN requests :
                          /\ requests'[id].status = "pending"
                          /\ requests'[id].requested_amount = loc[h].amount
                          /\ requests'[id].team_id = loc[h].teamId
              /\ resp'[h].route = ApproveRoute =>
                    LET q == requests[loc[h].requestId].requested_amount
                        t == requests[loc[h].requestId].team_id
                    IN teams' = [teams EXCEPT ![t] =
                             [initial_amount |-> teams[t].initial_amount + q,
                              used_amount |-> teams[t].used_amount,
                              remaining_amount |-> teams[t].remaining_amount + q,
                              created_by |-> teams[t].created_by]]
              /\ (/\ resp'[h].route = RejectRoute
                  /\ loc[h].requestId \in DOMAIN requests
                  /\ requests[loc[h].requestId].status = "pending") =>
                    /\ teams' = teams
                    /\ requests'[loc[h].requestId].status = "rejected"
         ]_vars
    /\ [](\A t \in DOMAIN teams :
            teams[t].remaining_amount = teams[t].initial_amount - teams[t].used_amount)

\* I = 10, d = 4, q = 5: {10, 0, 10}, {10, 4, 6}, {15, 4, 11}, then a second
\* request rejected
C13_Witness ==
    /\ resp["h1"] = [route |-> RejectRoute, status |-> 200, error |-> "none"]
    /\ DOMAIN teams = {1}
    /\ teams[1].initial_amount = 15
    /\ teams[1].used_amount = 4
    /\ teams[1].remaining_amount = 11
    /\ DOMAIN expenses = {1}
    /\ expenses[1].amount = 4
    /\ DOMAIN requests = {1, 2}
    /\ requests[1].status = "approved"
    /\ requests[1].requested_amount = 5
    /\ requests[2].status = "rejected"

Partners == {u \in DOMAIN users : users[u].role = "partner"}

\* C14: no step of a handler that serves a partner's session adds a partner to
\* the users or removes one.
C14_PartnerLifecycle ==
    [][\A h \in Handlers :
          (loc[h].userRole = "partner" /\ pc'[h] # pc[h]) => Partners' = Partners
      ]_vars

\* the rows a step adds to a table
Added(table, tableNext) == DOMAIN tableNext \ DOMAIN table

\* C15: an expense or an amount request is created only by the handler of a
\* field_staff session that is bound to a team, with team_id and user_id of
\* that session; the steps of an expense submission change no other team.
C15_OwnTeamOnly ==
    [][\A h \in Handlers :
          pc'[h] # pc[h] =>
            /\ \A e \in Added(expenses, expenses') :
                  /\ loc[h].userRole = "field_staff"
                  /\ loc[h].teamId # 0
                  /\ expenses'[e].team_id = loc[h].teamId
                  /\ expenses'[e].user_id = loc[h].userId
            /\ \A r \in Added(requests, requests') :
                  /\ loc[h].userRole = "field_staff"
                  /\ loc[h].teamId # 0
                  /\ requests'[r].team_id = loc[h].teamId
                  /\ requests'[r].user_id = loc[h].userId
            /\ (pc[h] \in {"expenses:select_team", "expenses:insert", "expenses:rpc",
                            "expenses:fallback_select", "expenses:fallback_update",
                            "expenses:update_team"}
                 \/ pc'[h] = "expenses:select_team") =>
                  /\ DOMAIN teams' = DOMAIN teams
                  /\ \A t \in DOMAIN teams \ {loc[h].teamId} : teams'[t] = teams[t]
      ]_vars

C15_Witness ==
    /\ DOMAIN teams = {1, 2}
    /\ teams[2].remaining_amount = 10
    /\ teams[1].used_amount = 4
    /\ DOMAIN expenses = {1}
    /\ expenses[1] = [team_id |-> 1, user_id |-> 3, amount |-> 4]
    /\ \E r \in DOMAIN requests : requests[r].status = "pending"
    /\ resp["h1"] = [route |-> ExpensesRoute, status |-> 403,
                     error |-> "Only field staff can add expenses"]

\* C16: a submission gets past its checks only for a field_staff session bound
\* to a team; when it answers 200 it has stored one request, pending and with
\* processed_by unset, and no balance has changed; no other step of the
\* handler stores a request, so a session without a team binding stores none.
C16_SubmitPending ==
    [][\A h \in Handlers :
          /\ pc'[h] = "requests:insert" =>
                loc'[h].userRole = "field_staff" /\ loc'[h].teamId # 0
          /\ (Answers(h) /\ resp'[h].route = RequestsRoute) =>
                /\ teams' = teams
                /\ resp'[h].status = 200 =>
                      /\ pc[h] = "requests:insert"
                      /\ \E id \in Added(requests, requests') :
                            /\ Added(requests, requests') = {id}
                            /\ requests'[id].status = "pending"
                            /\ requests'[id].processed_by = 0
                      /\ \A id \in DOMAIN requests : requests'[id] = requests[id]
                /\ resp'[h].status # 200 => requests' = requests
      ]_vars

C16_Witness ==
    /\ resp["h1"] = [route |-> RequestsRoute, status |-> 400,
                     error |-> "You are not assigned to any team"]
    /\ \E r \in DOMAIN requests :
          requests[r] = [team_id |-> 1, user_id |-> 3, requested_amount |-> 5,
                         status |-> "pending", processed_by |-> 0]
    /\ \A r \in DOMAIN requests : requests[r].user_id # 5

Terminal == {"approved", "rejected"}

\* C17: a request is approved or rejected exactly when its processed_by is
\* set; a step changes the status of a request only under a session of role
\* admin or partner, and the processed_by it stores with a terminal status is
\* the user of that session.
C17_ProcessedBy ==
    /\ [](\A r \in DOMAIN requests :
            requests[r].status \in Terminal <=> requests[r].processed_by # 0)
    /\ [][\A r \in DOMAIN requests \cap DOMAIN requests' :
            requests'[r].status # requests[r].status =>
              /\ session.userRole \in {"admin", "partner"}
              /\ session.userId # 0
              /\ requests'[r].status \in Terminal =>
                    requests'[r].processed_by = session.userId
         ]_vars

C17_Witness ==
    /\ session.userRole = "field_staff"
    /\ resp["h1"] = [route |-> RejectRoute, status |-> 403,
                     error |-> "Admin or Partner access required"]
    /\ DOMAIN requests = {1, 2}
    /\ requests[1].status = "approved"
    /\ requests[1].processed_by = 2
    /\ requests[2].status = "rejected"
    /\ requests[2].processed_by = 1

LoginRoute == "POST /api/login"
LogoutRoute == "POST /api/logout"

\* the routes that write users, teams, expenses or amount_requests
WritingRoutes ==
    { "POST /api/teams", "DELETE /api/teams/:id", "POST /api/users",
      "DELETE /api/users/:id", "POST /api/partners", "DELETE /api/partners/:id",
      ExpensesRoute, RequestsRoute, ApproveRoute, RejectRoute,
      "PUT /api/fix-null-requests" }

\* C18: while the browser's session is unauthenticated (no login yet, a failed
\* login, or after logout) no step changes a user, team, expense or
\* amount-request record and every answer of a writing route is 401 or 403; a
\* failed login leaves the session as it was, a logout leaves it
\* unauthenticated, and a successful login makes the session carry the id, role
\* and team of a user record.
C18_Unauthenticated ==
    [][/\ session.userId = 0 =>
             /\ UNCHANGED <<teams, expenses, requests, users>>
             /\ \A h \in Handlers :
                   (resp'[h] # resp[h] /\ resp'[h].route \in WritingRoutes) =>
                       resp'[h].status \in {401, 403}
       /\ \A h \in Handlers :
             resp'[h] # resp[h] =>
               /\ (resp'[h].route = LoginRoute /\ resp'[h].status = 200) =>
                     \E u \in DOMAIN users :
                        /\ session'.userId = u
                        /\ session'.userRole = users[u].role
                        /\ session'.teamId = users[u].team_id
               /\ (resp'[h].route = LoginRoute /\ resp'[h].status # 200) =>
                     session' = session
               /\ (resp'[h].route = LogoutRoute /\ resp'[h].status = 200) =>
                     session'.userId = 0
               /\ resp'[h].route \notin {LoginRoute, LogoutRoute} =>
                     session' = session
      ]_vars

\* the browser logged in as the field staff of team 1, logged out again, and was
\* then refused an expense; before that a login with a wrong password failed
C18_Witness ==
    /\ session = NoSession
    /\ resp["h1"] = [route |-> ExpensesRoute, status |-> 401, error |-> "Authentication required"]
    /\ DOMAIN expenses = {1}
    /\ expenses[1].user_id = 3

ReportRoutes ==
    { "GET /api/partner-report", "POST /api/partner-report/export/excel",
      "POST /api/partner-report/export/pdf" }

\* C19: a session with role field_staff has no access to partner reports: no
\* request of such a session to GET /api/partner-report or to one of the two
\* export routes is answered with 200.
C19_NoReportForFieldStaff ==
    [][\A h \in Handlers :
          (/\ session.userRole = "field_staff"
           /\ resp'[h] # resp[h]
           /\ resp'[h].route \in ReportRoutes) =>
              resp'[h].status # 200
      ]_vars

\* the tables that differ from table only in rows of other teams than t: any
\* of those rows may be missing
WithoutOthers(table, t) ==
    { [k \in D |-> table[k]] :
        D \in {D \in SUBSET DOMAIN table :
                 \A k \in DOMAIN table : table[k].team_id = t => k \in D} }

\* the same for the table teams, whose rows are the teams themselves
WithoutOtherTeams(t) ==
    { [k \in D |-> teams[k]] :
        D \in {D \in SUBSET DOMAIN teams : t \in DOMAIN teams => t \in D} }

\* C20: what a field_staff session reads is scoped to its own team. A 200 of
\* GET /api/teams/:id carries the row of the session's own team and no other;
\* a 200 of GET /api/expenses or GET /api/amount-requests carries exactly the
\* rows of the session's team; and each of the three answers is the answer the
\* same request gets in every state that differs only in the rows of other
\* teams.
C20_OwnTeamReads ==
    [][\A h \in Handlers :
          (/\ session.userRole = "field_staff"
           /\ resp'[h] # resp[h]
           /\ resp'[h].status = 200) =>
             /\ resp'[h].route = "GET /api/teams/:id" =>
                   /\ json'[h] = {Row(teams, session.teamId)}
                   /\ \A T \in WithoutOtherTeams(session.teamId) :
                         json'[h] = {Row(T, session.teamId)}
             /\ resp'[h].route = "GET /api/expenses" =>
                   /\ {e.id : e \in json'[h]} =
                         {k \in DOMAIN expenses : expenses[k].team_id = session.teamId}
                   /\ \A E \in WithoutOthers(expenses, session.teamId) :
                         json'[h] = EnrichExpenses(Select(E, session))
             /\ resp'[h].route = "GET /api/amount-requests" =>
                   /\ {r.id : r \in json'[h]} =
                         {k \in DOMAIN requests : requests[k].team_id = session.teamId}
                   /\ \A R \in WithoutOthers(requests, session.teamId) :
                         json'[h] = EnrichRequests(Select(R, session))
      ]_vars

\* the field staff of team 1 has read the expenses and got its own expense
\* while team 2 holds an expense and an amount request of its own
C20_Witness ==
    /\ session.userId = 3
    /\ resp["h1"] = [route |-> "GET /api/expenses", status |-> 200, error |-> "none"]
    /\ \E e \in json["h1"] : e.team_id = 1 /\ e.user_name = 3
    /\ \E k \in DOMAIN expenses : expenses[k].team_id = 2
    /\ \E k \in DOMAIN requests : requests[k].team_id = 2

UsersRoute == "DELETE /api/users/:id"
TeamsRoute == "DELETE /api/teams/:id"

\* C21: the deletion of a user or of a team that has an expense is answered
\* with an error at its first round trip and changes nothing; no step removes
\* a user or a team that an expense names; and a successful DELETE
\* /api/users/:id removes the user and leaves no amount request that names it.
C21_DeleteGuards ==
    [][\A h \in Handlers :
          /\ (/\ pc[h] = "users:count_expenses"
              /\ pc'[h] # pc[h]
              /\ \E e \in DOMAIN expenses : expenses[e].user_id = loc[h].id) =>
                 /\ pc'[h] = "responded"
                 /\ resp'[h].route = UsersRoute
                 /\ resp'[h].status \in {400, 500}
                 /\ UNCHANGED <<teams, expenses, requests, users>>
          /\ (/\ pc[h] = "teams:count_expenses"
              /\ pc'[h] # pc[h]
              /\ \E e \in DOMAIN expenses : expenses[e].team_id = loc[h].id) =>
                 /\ pc'[h] = "responded"
                 /\ resp'[h].route = TeamsRoute
                 /\ resp'[h].status \in {400, 500}
                 /\ UNCHANGED <<teams, expenses, requests, users>>
          /\ \A u \in DOMAIN users \ DOMAIN users' :
                 \A e \in DOMAIN expenses' : expenses'[e].user_id # u
          /\ \A t \in DOMAIN teams \ DOMAIN teams' :
                 \A e \in DOMAIN expenses' : expenses'[e].team_id # t
          /\ (Answers(h) /\ resp'[h].route = UsersRoute /\ resp'[h].status = 200) =>
                 /\ loc[h].id \notin DOMAIN users'
                 /\ \A r \in DOMAIN requests' :
                       /\ requests'[r].user_id # loc[h].id
                       /\ requests'[r].processed_by # loc[h].id
      ]_vars

\* user 3 was deleted after it had submitted an amount request, which is gone
C21_Witness ==
    /\ resp["h1"] = [route |-> UsersRoute, status |-> 200, error |-> "none"]
    /\ 3 \notin DOMAIN users
    /\ seq.requests = 1
    /\ DOMAIN requests = {}

\* C22: the expense store is append-only: every expense that exists before a
\* step exists after it with the same team_id, user_id and amount.
C22_ExpensesAppendOnly ==
    [][\A e \in DOMAIN expenses :
          /\ e \in DOMAIN expenses'
          /\ expenses'[e].team_id = expenses[e].team_id
          /\ expenses'[e].user_id = expenses[e].user_id
          /\ expenses'[e].amount = expenses[e].amount
      ]_vars

\* two expenses are stored and the deletion of their team was refused
C22_Witness ==
    /\ resp["h1"].route = TeamsRoute
    /\ resp["h1"].status = 400
    /\ DOMAIN expenses = {1, 2}
    /\ \A e \in DOMAIN expenses : expenses[e].team_id = 1 /\ expenses[e].amount = 4

StatsRoute == "GET /api/dashboard/stats"

\* C23: GET /api/dashboard/stats changes no stored state; when no write has
\* come between its reads, its answer is totalTeams = the number of teams,
\* totalBudget / totalUsed / totalRemaining = the sums of initial_amount /
\* used_amount / remaining_amount over all teams and pendingRequests = the
\* number of pending requests; and whenever no handler is in flight these
\* totals satisfy totalRemaining = totalBudget - totalUsed.
C23_DashboardStats ==
    /\ [](AtRest =>
            sum(teams, "remaining_amount") =
                sum(teams, "initial_amount") - sum(teams, "used_amount"))
    /\ [][\A h \in Handlers :
            /\ (pc'[h] # pc[h] /\ (pc[h] \in {"stats:count_teams", "stats:select_totals",
                                                "stats:count_pending"}
                                    \/ pc'[h] = "stats:count_teams")) =>
                   UNCHANGED <<teams, expenses, requests, users>>
            /\ (/\ Answers(h)
                /\ resp'[h].route = StatsRoute
                /\ resp'[h].status = 200
                /\ loc[h].totals = teams
                /\ loc[h].teamCount = Cardinality(DOMAIN teams)) =>
                   json'[h] =
                     {[totalTeams |-> Cardinality(DOMAIN teams),
                       totalBudget |-> sum(teams, "initial_amount"),
                       totalUsed |-> sum(teams, "used_amount"),
                       totalRemaining |-> sum(teams, "remaining_amount"),
                       pendingRequests |->
                         Cardinality({r \in DOMAIN requests :
                                         requests[r].status = "pending"})]}
        ]_vars

FixNullRoute == "PUT /api/fix-null-requests"

\* C24: a status of null is an alias of pending. The status check of approve
\* lets a request through whose status is null or pending; an approve that
\* answers 200 has stored the status approved and credits the team with
\* requested_amount whichever of the two the status was; and a
\* fix-null-requests that answers 200 has set every null status to pending and
\* has changed no other request and no team.
C24_NullIsPending ==
    [][\A h \in Handlers :
          /\ (/\ pc[h] = "approve:select_request"
              /\ pc'[h] # pc[h]
              /\ loc[h].requestId \in DOMAIN requests
              /\ requests[loc[h].requestId].status \in {"null", "pending"}) =>
                 \/ /\ pc'[h] = "approve:update_request"
                    /\ loc'[h].request = requests[loc[h].requestId]
                 \/ pc'[h] = "responded" /\ resp'[h].status = 500
          /\ (/\ Answers(h)
              /\ backend = "supabase"
              /\ resp'[h].route = ApproveRoute
              /\ resp'[h].status = 200) =>
                 LET r == loc[h].request
                     t == r.team_id
                 IN /\ r.status \in {"null", "pending"}
                    /\ requests[loc[h].requestId].status = "approved"
                    /\ teams'[t].initial_amount =
                          teams[t].initial_amount + r.requested_amount
                    /\ teams'[t].remaining_amount =
                          teams[t].remaining_amount + r.requested_amount
                    /\ teams'[t].used_amount = teams[t].used_amount
          /\ (/\ Answers(h)
              /\ resp'[h].route = FixNullRoute
              /\ resp'[h].status = 200) =>
                 /\ teams' = teams
                 /\ DOMAIN requests' = DOMAIN requests
                 /\ \A r \in DOMAIN requests :
                       IF requests[r].status = "null"
                       THEN requests'[r] = [requests[r] EXCEPT !.status = "pending"]
                       ELSE requests'[r] = requests[r]
      ]_vars

\* the approve of the legacy request 1 has read the status null, has stored
\* the status approved and is about to credit team 1
C24_Witness ==
    /\ backend = "supabase"
    /\ pc["h1"] = "approve:update_team"
    /\ loc["h1"].request.status = "null"
    /\ DOMAIN requests = {1}
    /\ requests[1].status = "approved"
    /\ requests[1].processed_by = loc["h1"].userId

ReportRoute == "GET /api/partner-report"

\* the budget a team was created with: every team of the model is created
\* with the one budget of TeamBudgets
CreationBudget(t) == CHOOSE a \in TeamBudgets : TRUE

RECURSIVE SumOver(_, _, _)
SumOver(table, ids, key) ==
    IF ids = {} THEN 0
    ELSE LET k == CHOOSE k \in ids : TRUE
         IN table[k][key] + SumOver(table, ids \ {k}, key)

\* what partner p has allocated: the creation budgets of the teams p created
\* plus the amounts of the approved requests p processed
Allocated(p) ==
    LET created == {t \in DOMAIN teams : teams[t].created_by = p}
        approved == {r \in DOMAIN requests :
                       requests[r].status = "approved" /\ requests[r].processed_by = p}
    IN Cardinality(created) * CreationBudget(1)
         + SumOver(requests, approved, "requested_amount")

\* C25: in a partner report answered with 200, the team_creation line of a
\* team shows, for its creator, the budget the team was created with, whatever
\* was approved for the team since; the total of each of the two partners is
\* the sum of the creation budgets of the teams they created and of the
\* requested_amounts of the requests they approved; and the total difference
\* is the first total minus the second.
C25_PartnerReport ==
    [][\A h \in Handlers :
          (/\ Answers(h)
           /\ resp'[h].route = ReportRoute
           /\ resp'[h].status = 200) =>
             /\ \A l \in json'[h] :
                   l.type = "team_creation" =>
                     /\ l.partner1_amount =
                           IF teams[l.id].created_by = loc[h].partner1_id
                           THEN CreationBudget(l.id) ELSE 0
                     /\ l.partner2_amount =
                           IF teams[l.id].created_by = loc[h].partner2_id
                           THEN CreationBudget(l.id) ELSE 0
             /\ \A l \in json'[h] :
                   l.type = "totals" =>
                     /\ l.partner1_amount = Allocated(loc[h].partner1_id)
                     /\ l.partner2_amount = Allocated(loc[h].partner2_id)
                     /\ l.difference = l.partner1_amount - l.partner2_amount
      ]_vars

\* C26: when an approve (credit of r = 5) and an expense submission (debit of
\* d = 6) on team 1 overlap and both have answered 200, the balances of the team
\* are initial + r, used + d and remaining + r - d, here 15, 6 and 9.
C26_ApproveAndExpenseOverlap ==
    \A h, g \in Handlers :
        (/\ resp[h] = [route |-> ExpensesRoute, status |-> 200, error |-> "none"]
         /\ resp[g] = [route |-> ApproveRoute, status |-> 200, error |-> "none"]) =>
            /\ teams[1].initial_amount = 10 + 5
            /\ teams[1].used_amount = 0 + 6
            /\ teams[1].remaining_amount = 10 + 5 - 6

\* C27: when two approve calls on the pending request 1 overlap, team 1 is
\* credited with its requested_amount at most once and at most one of the two
\* calls answers 200.
C27_OverlappingApproves ==
    /\ teams[1].initial_amount <= 10 + requests[1].requested_amount
    /\ teams[1].remaining_amount + teams[1].used_amount
          <= 10 + requests[1].requested_amount
    /\ ~ \A h \in Handlers :
            resp[h] = [route |-> ApproveRoute, status |-> 200, error |-> "none"]

\* the stored requests of team t whose status is approved
ApprovedOf(t) ==
    {r \in DOMAIN requests : requests[r].team_id = t /\ requests[r].status = "approved"}

\* C28: whenever no handler is in flight, the initial_amount of every team is
\* the budget given at its creation plus the sum of requested_amount over the
\* stored requests of that team whose status is approved.
C28_InitialIsBudgetPlusApproved ==
    AtRest =>
        \A t \in DOMAIN teams :
            teams[t].initial_amount =
                CreationBudget(t) + SumRequested(requests, ApprovedOf(t))

PartnersRoute == "DELETE /api/partners/:id"

\* the handler of slot h is deleting a user that is not of the role its route
\* deletes, or that does not exist: it is to answer with an error
WrongRole(h) ==
    \/ /\ pc[h] \in {"users:count_expenses", "users:delete_requests",
                     "users:select_role", "users:delete"}
       /\ (loc[h].id \in DOMAIN users => users[loc[h].id].role # "field_staff")
    \/ /\ pc[h] \in {"partners:count_expenses", "partners:delete_requests",
                     "partners:select_role", "partners:delete"}
       /\ (loc[h].id \in DOMAIN users => users[loc[h].id].role # "partner")

\* C29: a user or partner deletion that answers with an error leaves the stored
\* data unchanged: no step of DELETE /api/users/:id on a user who is not
\* field_staff, or of DELETE /api/partners/:id on a user who is not a partner,
\* changes a table, and neither does the step that sends an error response.
C29_FailedDeletionChangesNothing ==
    [][\A h \in Handlers :
          /\ WrongRole(h) => UNCHANGED <<teams, expenses, requests, users>>
          /\ (/\ Answers(h)
              /\ resp'[h].route \in {UsersRoute, PartnersRoute}
              /\ resp'[h].status # 200) =>
                 UNCHANGED <<teams, expenses, requests, users>>
      ]_vars

====
